---- MODULE Spec2Model ----
(***************************************************************************)
(* MonitorLLM: the activity aggregation engine.                            *)
(*   src/core/activity_monitor.py       TerminalActivityMonitor            *)
(*   src/core/comprehensive_monitor.py  ComprehensiveTerminalMonitor and   *)
(*                                      its five source monitors           *)
(*   src/core/terminal_monitor.py       TerminalMonitor and its three      *)
(*                                      source monitors                    *)
(* Strings are TLA+ strings; a multi-line text is the sequence of its      *)
(* lines.  Every entry carries a field id, the number of its insertion:    *)
(* two calls with equal arguments build two objects, and id tells them     *)
(* apart.                                                                  *)
(***************************************************************************)
EXTENDS Integers, Sequences, FiniteSets, TLC

(* ------------------------------ bounds -------------------------------- *)

\* TerminalActivityMonitor(max_context_size=..., max_history_items=...):
\* the constructor's two parameters, set small.
max_history_items == 2
max_context_size == 40
\* deque(maxlen=2000) of ComprehensiveTerminalMonitor.terminal_buffer, scaled.
TerminalBufferMaxlen == 2
\* deque(maxlen=50/30/20/20/10) of the source monitors' buffers, scaled.
MonitorBufMaxlen == 2
\* Entries and events created in one behaviour.
MaxIds == 3
\* load_session calls in one behaviour.
MaxLoads == 1
\* log_* calls in one behaviour with concurrent callers.
MaxLogCalls == 2

(* ------------------------------ inputs -------------------------------- *)

\* Caller-supplied timestamps, and the cutoff times they are compared with.
Times == {0, 1}
CutoffTimes == {0, 1, 2}
Commands == {"ls", "git status"}
LongLine == "0123456789012345678901234567890123456789"
\* An output is the sequence of its lines.
Outputs == {<<"a", "b">>, <<" ">>, <<LongLine>>}
Directories == {"/tmp"}
FileOps == {<<"edit", "a.txt">>}

\* The source monitors of ComprehensiveTerminalMonitor, in the order of the
\* dict self.monitors.
MonitorOrder ==
    <<"shell_history", "process_watcher", "terminal_capture",
      "file_monitor", "environment_monitor">>
Monitors == {MonitorOrder[i] : i \in 1..Len(MonitorOrder)}
\* The monitors whose poll loop appends to its buffer: the loops of
\* TerminalCapture and FileAccessMonitor only sleep.
Emitters == {"shell_history", "process_watcher", "environment_monitor"}

VARIABLES
    \* TerminalActivityMonitor
    command_history,     \* deque(maxlen=max_history_items)
    output_history,      \* deque(maxlen=max_history_items)
    context_buffer,      \* the lines of the string, each ended by "\n"
    current_directory,
    is_comprehensive_monitoring, \* __init__ started the comprehensive monitor
    session_data,        \* commands, outputs, directory_changes, file_operations
    lock,                \* "free" or the thread holding self.lock
    \* ComprehensiveTerminalMonitor
    is_monitoring,
    terminal_buffer,     \* deque(maxlen=2000)
    cm_session_data,     \* commands, outputs, processes, files_accessed
    cm_lock,             \* "free" or the thread holding self.lock
    coord,               \* the coordination thread: pc, i, data
    \* source monitors
    is_running,          \* [Monitors -> BOOLEAN]
    buf,                 \* [Monitors -> the deque new_commands, new_processes, ...]
    arrived,             \* [Monitors -> ids appended to buf[m] since its last clear]
    thread,              \* [Monitors -> self.thread: "none", "alive" or "dead"]
    orphans,             \* [Monitors -> live poll threads self.thread no longer names]
    \* the host, and the coordinator class in use
    kind,                \* "comprehensive" or "terminal"
    hist_ok,             \* a shell history file exists
    psutil_ok,           \* psutil can be imported
    cthread,             \* coordination_thread / monitor_thread: "none", "alive", "dead"
    corphans,            \* live coordination threads the coordinator no longer names
    \* the thread that calls start/stop
    client,              \* [op, i, ret]: the statement it is at
    last_call,           \* <<method, monitor>> of its last call
    prev_call,           \* and of the call before
    ncalls,              \* calls so far
    raised,              \* a call raised to the caller
    started,             \* the objects start()/start_monitoring() was called on
    \* one source monitor's poll loop and what it polls
    loop,                \* [pc, failed]: where the poll thread is in its loop
    hist_lines,          \* the lines of the history file, each a sequence of characters
    hist_mtime,          \* its st_mtime: writes since the monitor was constructed
    last_checked,        \* last_checked (an mtime) / last_history_size (a size)
    proc_table,          \* the processes psutil.process_iter yields: pid -> info
    known_pids,
    process_cache,       \* ProcessWatcher.process_cache: pid -> info
    os_env,              \* os.environ
    last_env,
    cycle,               \* the last poll cycle: its events, their ids, its end
    \* history of the behaviour
    nid,                 \* entries and events created so far
    ins_cmd,             \* ids appended to command_history, in order
    ins_out,             \* ids appended to output_history, in order
    ins_ctx,             \* line ids appended to context_buffer, in order
    ins_tb,              \* ids appended to terminal_buffer, in order
    cleaned,             \* cleanup_old_data has removed an entry
    ctx_overflowed,      \* the last append pushed context_buffer over its size
    focus,               \* the object whose steps the behaviour takes
    \* one call of parse_file_references
    message,             \* the argument, a sequence of characters
    file_contents,       \* the dict it builds
    fs_outcomes,         \* what the file system did with each match
    parse_pc,            \* "idle", "returned" or "raised"
    \* one session of TerminalActivityMonitor, its summary and its file
    session_start,       \* self.session_start
    summary,             \* what get_session_summary returned, or that it raised
    saved,               \* the file save_session wrote, <<>> while there is none
    session_op,          \* the last step: "log", "summary", "save", "load", ...
    after_load,          \* nothing was logged since load_session
    probed,              \* the probes called by the capture just done
    fault,               \* the calls that raised: start, drain; and the drains done
    \* threads that call TerminalActivityMonitor concurrently
    pc,                  \* [Threads -> <<the statement the thread is at, loop index>>]
    call,                \* the entry and the text of the logger's log_* call
    load_file,           \* the session the loader's json.load returned
    load_pre,            \* the content when the loader's load_session began
    loads,               \* load_session calls so far
    observed,            \* the content the reader last saw under the lock
    obs_in_load          \* it saw it between the start and the end of a load

amVars == <<command_history, output_history, context_buffer, current_directory,
            session_data, lock>>
cmVars == <<is_monitoring, terminal_buffer, cm_session_data, cm_lock, coord>>
monVars == <<is_running, buf, arrived>>
lifeVars == <<thread, orphans, kind, hist_ok, psutil_ok, cthread, corphans,
              client, last_call, prev_call, ncalls, raised, started>>
histVars == <<nid, ins_cmd, ins_out, ins_ctx, ins_tb, cleaned, ctx_overflowed>>
thVars == <<pc, call, load_file, load_pre, loads, observed, obs_in_load>>
pollVars == <<loop, hist_lines, hist_mtime, last_checked, proc_table,
              known_pids, process_cache, os_env, last_env, cycle>>
parseVars == <<message, file_contents, fs_outcomes, parse_pc>>
sumVars == <<session_start, summary, saved, session_op, after_load>>
modeVars == <<focus, is_comprehensive_monitoring, parseVars, sumVars, probed,
              fault>>
vars == <<amVars, cmVars, monVars, histVars, modeVars, thVars, lifeVars,
          pollVars>>

(* ------------------------------ helpers ------------------------------- *)

\* The last n elements of s.
LastN(s, n) ==
    IF Len(s) <= n THEN s ELSE SubSeq(s, Len(s) - n + 1, Len(s))

\* The concatenations of at most n elements of S.
RECURSIVE SeqsUpTo(_, _)
SeqsUpTo(S, n) ==
    IF n = 0 THEN {<<>>}
    ELSE SeqsUpTo(S, n - 1)
             \cup {s \o c : s \in SeqsUpTo(S, n - 1), c \in S}

\* collections.deque.append on a deque with maxlen: a full deque drops its
\* leftmost element.
DequeAppendUnbounded(d, x, maxlen) == Append(d, x)
DequeAppend(d, x, maxlen) ==
    IF maxlen = 0 THEN d
    ELSE IF Len(d) >= maxlen THEN Append(Tail(d), x)
    ELSE Append(d, x)

\* The lock when its holder leaves the block of "with self.lock:", by its
\* end, a return or an exception.
WithExitKeeps(holder) == holder
WithExit(holder) == "free"

\* deque(iterable, maxlen): the last maxlen elements.
DequeFrom(s, maxlen) == LastN(s, maxlen)

\* datetime.isoformat and datetime.fromisoformat.
IsoFormat(t) == <<"iso", t>>
FromIsoFormat(s) == s[2]

\* [e for e in entries if datetime.fromisoformat(e["timestamp"]) >= cutoff_time]
RECURSIVE NotOlderThan(_, _)
NotOlderThan(entries, cutoff_time) ==
    IF entries = <<>> THEN <<>>
    ELSE IF FromIsoFormat(Head(entries).timestamp) >= cutoff_time
         THEN <<Head(entries)>> \o NotOlderThan(Tail(entries), cutoff_time)
         ELSE NotOlderThan(Tail(entries), cutoff_time)

\* timestamp.strftime('%H:%M:%S'): always eight characters.
StrfTime(t) == "00:00:0" \o ToString(t)

\* len(self.context_buffer): every line and its "\n".
RECURSIVE BufLen(_)
BufLen(lines) ==
    IF lines = <<>> THEN 0
    ELSE Len(Head(lines).text) + 1 + BufLen(Tail(lines))

\* The loop of _update_context_buffer over lines = buffer.split('\n'):
\* pop(0) while len('\n'.join(lines)) > max_context_size * 0.8.  The list
\* split returns ends with '' after the last "\n", so the joined length is
\* BufLen of the lines that are left.
RECURSIVE TrimLinesToMax(_)
TrimLinesToMax(lines) ==
    IF BufLen(lines) > max_context_size THEN TrimLinesToMax(Tail(lines))
    ELSE lines
RECURSIVE TrimLinesFromEnd(_)
TrimLinesFromEnd(lines) ==
    IF 10 * BufLen(lines) > max_context_size * 8
    THEN TrimLinesFromEnd(SubSeq(lines, 1, Len(lines) - 1))
    ELSE lines
RECURSIVE TrimLines(_)
TrimLines(lines) ==
    IF 10 * BufLen(lines) > max_context_size * 8 THEN TrimLines(Tail(lines))
    ELSE lines

\* _update_context_buffer(text) on the buffer ctx: text is the sequence of
\* the line records of text.
UpdateContextBuffer(ctx, text) ==
    LET appended == ctx \o text
    IN  IF BufLen(appended) > max_context_size THEN TrimLines(appended)
        ELSE appended

\* Whether the append of text pushes the buffer over max_context_size.
PushesOver(ctx, text) == BufLen(ctx \o text) > max_context_size

\* The line records of a text (a sequence of strings) of entry id.
LinesOf(id, text) ==
    [k \in 1..Len(text) |-> [id |-> <<id, k>>, text |-> text[k]]]

\* output.strip(): empty when every line is empty or blank.
IsBlank(text) == \A k \in 1..Len(text) : text[k] \in {"", " ", "  "}

LineIds(lines) == [k \in 1..Len(lines) |-> lines[k].id]
Ids(entries) == [k \in 1..Len(entries) |-> entries[k].id]

(* --------------------- TerminalActivityMonitor ------------------------ *)

\* The effect of one log_* call on context_buffer and on its history.
CtxUpdate(id, text) ==
    /\ context_buffer' = UpdateContextBuffer(context_buffer, LinesOf(id, text))
    /\ ins_ctx' = ins_ctx \o LineIds(LinesOf(id, text))
    /\ ctx_overflowed' = PushesOver(context_buffer, LinesOf(id, text))

\* log_command(command, timestamp)
LogCommandFrom(commands, times) ==
    /\ lock = "free"
    /\ nid < MaxIds
    /\ \E command \in commands, timestamp \in times :
        LET command_entry ==
                [id |-> nid + 1, timestamp |-> IsoFormat(timestamp),
                 command |-> command, directory |-> current_directory]
        IN  /\ command_history' =
                   DequeAppend(command_history, command_entry, max_history_items)
            /\ session_data' =
                   [session_data EXCEPT !.commands = Append(@, command_entry)]
            /\ CtxUpdate(nid + 1,
                         <<"[" \o StrfTime(timestamp) \o "] $ " \o command>>)
            /\ ins_cmd' = Append(ins_cmd, nid + 1)
    /\ nid' = nid + 1
    /\ UNCHANGED <<output_history, current_directory, lock, ins_out, ins_tb,
                   cleaned, cmVars, monVars>>

LogCommand == LogCommandFrom(Commands, Times)

\* log_output(output, command, timestamp)
LogOutputFrom(outputs, times) ==
    /\ lock = "free"
    /\ nid < MaxIds
    /\ \E output \in outputs, timestamp \in times :
        LET output_entry ==
                [id |-> nid + 1, timestamp |-> IsoFormat(timestamp),
                 command |-> "", output |-> output,
                 directory |-> current_directory]
        IN  /\ output_history' =
                   DequeAppend(output_history, output_entry, max_history_items)
            /\ session_data' =
                   [session_data EXCEPT !.outputs = Append(@, output_entry)]
            /\ IF ~IsBlank(output)
               THEN CtxUpdate(nid + 1, output)
               ELSE UNCHANGED <<context_buffer, ins_ctx, ctx_overflowed>>
            /\ ins_out' = Append(ins_out, nid + 1)
    /\ nid' = nid + 1
    /\ UNCHANGED <<command_history, current_directory, lock, ins_cmd, ins_tb,
                   cleaned, cmVars, monVars>>

LogOutput == LogOutputFrom(Outputs, Times)

\* log_directory_change(new_directory, timestamp)
LogDirectoryChange ==
    /\ lock = "free"
    /\ nid < MaxIds
    /\ \E new_directory \in Directories, timestamp \in Times :
        LET dir_change_entry ==
                [id |-> nid + 1, timestamp |-> IsoFormat(timestamp),
                 from |-> current_directory, to |-> new_directory]
        IN  /\ current_directory' = new_directory
            /\ session_data' =
                   [session_data EXCEPT
                        !.directory_changes = Append(@, dir_change_entry)]
            /\ CtxUpdate(nid + 1,
                         <<"[" \o StrfTime(timestamp) \o "] cd " \o new_directory>>)
    /\ nid' = nid + 1
    /\ UNCHANGED <<command_history, output_history, lock, ins_cmd, ins_out,
                   ins_tb, cleaned, cmVars, monVars>>

\* log_file_operation(operation, filepath, timestamp)
LogFileOperationFrom(ops, times) ==
    /\ lock = "free"
    /\ nid < MaxIds
    /\ \E op \in ops, timestamp \in times :
        LET file_op_entry ==
                [id |-> nid + 1, timestamp |-> IsoFormat(timestamp),
                 operation |-> op[1], filepath |-> op[2],
                 directory |-> current_directory]
        IN  /\ session_data' =
                   [session_data EXCEPT
                        !.file_operations = Append(@, file_op_entry)]
            /\ CtxUpdate(nid + 1,
                         <<"[" \o StrfTime(timestamp) \o "] " \o op[1] \o ": "
                           \o op[2]>>)
    /\ nid' = nid + 1
    /\ UNCHANGED <<command_history, output_history, current_directory, lock,
                   ins_cmd, ins_out, ins_tb, cleaned, cmVars, monVars>>

LogFileOperation == LogFileOperationFrom(FileOps, Times)

\* cleanup_old_data(days): cutoff_time is datetime.now() - days, any time.
CleanupOldData ==
    /\ lock = "free"
    /\ \E cutoff_time \in CutoffTimes :
        /\ command_history' =
               DequeFrom(NotOlderThan(command_history, cutoff_time),
                         max_history_items)
        /\ output_history' =
               DequeFrom(NotOlderThan(output_history, cutoff_time),
                         max_history_items)
    /\ cleaned' = (cleaned \/ command_history' # command_history
                           \/ output_history' # output_history)
    /\ UNCHANGED <<context_buffer, current_directory, session_data, lock, nid,
                   ins_cmd, ins_out, ins_ctx, ins_tb, ctx_overflowed,
                   cmVars, monVars>>

(* ------------------- ComprehensiveTerminalMonitor --------------------- *)

\* The event a poll loop appends to its monitor's buffer:
\* ShellHistoryMonitor._process_history_update, ProcessWatcher.
\* _monitor_processes, EnvironmentMonitor._monitor_environment.
EventOf(m, id, timestamp) ==
    CASE m = "shell_history" ->
           [id |-> id, timestamp |-> StrfTime(timestamp), command |-> "ls",
            source |-> "shell_history"]
      [] m = "process_watcher" ->
           [id |-> id, timestamp |-> StrfTime(timestamp), pid |-> 1,
            name |-> "bash", action |-> "started"]
      [] OTHER ->
           [id |-> id, timestamp |-> StrfTime(timestamp), variable |-> "PATH",
            value |-> "/bin", action |-> "changed"]

\* A poll loop appends one event to its buffer (self.new_commands.append,
\* self.new_processes.append, self.new_changes.append).
PollEmit(m) ==
    /\ m \in Emitters
    /\ thread[m] = "alive" \/ orphans[m] > 0
    /\ nid < MaxIds
    /\ \E timestamp \in Times :
           buf' = [buf EXCEPT ![m] = DequeAppend(@, EventOf(m, nid + 1,
                                                            timestamp),
                                                 MonitorBufMaxlen)]
    /\ arrived' = [arrived EXCEPT ![m] = Append(@, nid + 1)]
    /\ nid' = nid + 1
    /\ UNCHANGED <<amVars, cmVars, is_running, ins_cmd, ins_out, ins_ctx,
                   ins_tb, cleaned, ctx_overflowed>>

\* The line _process_monitor_data appends to terminal_buffer for one item,
\* <<>> for a monitor it has no branch for.
BufferEntry(monitor_name, item) ==
    CASE monitor_name = "shell_history" ->
           <<[id |-> item.id,
              text |-> "[" \o item.timestamp \o "] $ " \o item.command]>>
      [] monitor_name = "terminal_capture" ->
           <<[id |-> item.id,
              text |-> "[" \o item.timestamp \o "] " \o item.content]>>
      [] monitor_name = "process_watcher" ->
           <<[id |-> item.id,
              text |-> "[" \o item.timestamp \o "] Process " \o item.action
                       \o ": " \o item.name \o " (PID: " \o ToString(item.pid)
                       \o ")"]>>
      [] monitor_name = "file_monitor" ->
           <<[id |-> item.id,
              text |-> "[" \o item.timestamp \o "] File " \o item.action
                       \o ": " \o item.path]>>
      [] OTHER -> <<>>

\* The key of session_data _process_monitor_data appends the item to.
SessionKey(monitor_name) ==
    CASE monitor_name = "shell_history" -> "commands"
      [] monitor_name = "terminal_capture" -> "outputs"
      [] monitor_name = "process_watcher" -> "processes"
      [] monitor_name = "file_monitor" -> "files_accessed"
      [] OTHER -> "none"

\* terminal_buffer after _process_monitor_data(monitor_name, data).
RECURSIVE ProcessBuffer(_, _, _)
ProcessBuffer(tb, monitor_name, data) ==
    IF data = <<>> THEN tb
    ELSE LET entry == BufferEntry(monitor_name, Head(data))
         IN  ProcessBuffer(
                 IF entry = <<>> THEN tb
                 ELSE DequeAppend(tb, entry[1], TerminalBufferMaxlen),
                 monitor_name, Tail(data))

\* The time a '%H:%M:%S' string stands for.
TimeOf(str) == CHOOSE t \in Times : StrfTime(t) = str

\* s with e put before the first element of a later time.
RECURSIVE InsertByTime(_, _)
InsertByTime(s, e) ==
    IF s = <<>> THEN <<e>>
    ELSE IF TimeOf(s[Len(s)].timestamp) <= TimeOf(e.timestamp)
         THEN Append(s, e)
    ELSE Append(InsertByTime(SubSeq(s, 1, Len(s) - 1), e), s[Len(s)])

RECURSIVE SortByTime(_)
SortByTime(s) ==
    IF s = <<>> THEN <<>>
    ELSE InsertByTime(SortByTime(SubSeq(s, 1, Len(s) - 1)), s[Len(s)])

\* session_data after _process_monitor_data(monitor_name, data).
ProcessSessionByTime(sd, monitor_name, data) ==
    IF SessionKey(monitor_name) = "none" THEN sd
    ELSE [sd EXCEPT ![SessionKey(monitor_name)] = SortByTime(@ \o data)]
ProcessSession(sd, monitor_name, data) ==
    IF SessionKey(monitor_name) = "none" THEN sd
    ELSE [sd EXCEPT ![SessionKey(monitor_name)] = @ \o data]

\* The ids _process_monitor_data appends to terminal_buffer.
RECURSIVE BufferedIds(_, _)
BufferedIds(monitor_name, data) ==
    IF data = <<>> THEN <<>>
    ELSE Ids(BufferEntry(monitor_name, Head(data)))
         \o BufferedIds(monitor_name, Tail(data))

\* _coordination_loop: while self.is_monitoring: with self.lock: ...
CoordAcquire ==
    /\ cthread = "alive"
    /\ coord.pc = "check"
    /\ is_monitoring
    /\ cm_lock = "free"
    /\ cm_lock' = "coord"
    /\ coord' = [pc |-> "copy", i |-> 1, data |-> <<>>, since |-> <<>>]
    /\ UNCHANGED <<amVars, is_monitoring, terminal_buffer, cm_session_data,
                   monVars, histVars>>

\* deque.clear()
NotCleared(d) == d
Cleared(d) == <<>>

\* get_new_data, first statement: commands = list(self.new_commands)
DrainCopy ==
    /\ coord.pc = "copy"
    /\ coord' = [coord EXCEPT !.pc = "clear",
                              !.data = buf[MonitorOrder[coord.i]],
                              !.since = arrived[MonitorOrder[coord.i]]]
    /\ UNCHANGED <<amVars, is_monitoring, terminal_buffer, cm_session_data,
                   cm_lock, monVars, histVars>>

\* get_new_data, second statement: self.new_commands.clear(); then
\* if new_data: self._process_monitor_data(name, new_data); after the last
\* monitor the lock is released and the loop sleeps.
DrainClear ==
    /\ coord.pc = "clear"
    /\ LET m == MonitorOrder[coord.i]
       IN  /\ buf' = [buf EXCEPT ![m] = Cleared(@)]
           /\ arrived' = [arrived EXCEPT ![m] = <<>>]
           /\ terminal_buffer' = ProcessBuffer(terminal_buffer, m, coord.data)
           /\ cm_session_data' = ProcessSession(cm_session_data, m, coord.data)
           /\ ins_tb' = ins_tb \o BufferedIds(m, coord.data)
    /\ IF coord.i < Len(MonitorOrder)
       THEN /\ coord' = [pc |-> "copy", i |-> coord.i + 1, data |-> <<>>,
                          since |-> <<>>]
            /\ cm_lock' = cm_lock
       ELSE /\ coord' = [pc |-> "check", i |-> 0, data |-> <<>>,
                          since |-> <<>>]
            /\ cm_lock' = WithExit(cm_lock)
    /\ UNCHANGED <<amVars, is_monitoring, is_running, nid, ins_cmd, ins_out,
                   ins_ctx, cleaned, ctx_overflowed>>

(* ---------------- the logging interface and the merge ----------------- *)

\* TerminalActivityMonitor() just constructed: its __init__ has built and
\* started a ComprehensiveTerminalMonitor, whose poll loops and
\* coordination loop run.  log_* and cleanup_old_data read and write only
\* the fields of TerminalActivityMonitor, the poll loops and the
\* coordination loop only those of ComprehensiveTerminalMonitor and of its
\* monitors: the states either object reaches do not depend on the steps of
\* the other, and a behaviour takes the steps of one of them (focus).
Threads == {"logger", "loader", "reader"}
Idle == [op |-> "idle", i |-> 0, ret |-> ""]
NoCall == <<"", "">>
NoView == [session_data |-> <<>>, command_history |-> <<>>,
           output_history |-> <<>>]

\* What the poll loops read is left out where their cycles are the steps
\* PollEmit.
NoCycle == [m |-> "", error |-> FALSE, events |-> <<>>, ids |-> <<>>]
\* parse_file_references is not called.
NoParse ==
    /\ message = <<>>
    /\ file_contents = <<>>
    /\ fs_outcomes = <<>>
    /\ parse_pc = "idle"
NoSummary ==
    /\ session_start = 0
    /\ summary = [pc |-> "idle"]
    /\ saved = <<>>
    /\ session_op = "init"
    /\ after_load = FALSE
\* No call has raised, no monitor was drained.
NoFault == fault = [start |-> {}, drain |-> {}, drained |-> <<>>]
NoPoll ==
    /\ loop = [pc |-> "check", failed |-> FALSE]
    /\ hist_lines = <<>>
    /\ hist_mtime = 0
    /\ last_checked = 0
    /\ proc_table = <<>>
    /\ known_pids = {}
    /\ process_cache = <<>>
    /\ os_env = <<>>
    /\ last_env = <<>>
    /\ cycle = NoCycle

InitData ==
    /\ command_history = <<>>
    /\ output_history = <<>>
    /\ context_buffer = <<>>
    /\ current_directory = "/home"
    /\ session_data = [start_time |-> IsoFormat(0),
                       commands |-> <<>>, outputs |-> <<>>,
                       directory_changes |-> <<>>, file_operations |-> <<>>]
    /\ lock = "free"
    /\ terminal_buffer = <<>>
    /\ cm_session_data = [commands |-> <<>>, outputs |-> <<>>,
                          processes |-> <<>>, files_accessed |-> <<>>]
    /\ cm_lock = "free"
    /\ coord = [pc |-> "check", i |-> 0, data |-> <<>>, since |-> <<>>]
    /\ buf = [m \in Monitors |-> <<>>]
    /\ arrived = [m \in Monitors |-> <<>>]
    /\ orphans = [m \in Monitors |-> 0]
    /\ corphans = 0
    /\ client = Idle
    /\ prev_call = NoCall
    /\ raised = FALSE
    /\ nid = 0
    /\ ins_cmd = <<>>
    /\ ins_out = <<>>
    /\ ins_ctx = <<>>
    /\ ins_tb = <<>>
    /\ cleaned = FALSE
    /\ ctx_overflowed = FALSE
    /\ pc = [t \in Threads |-> <<"idle", 0>>]
    /\ call = <<>>
    /\ load_file = <<>>
    /\ load_pre = NoView
    /\ loads = 0
    /\ observed = NoView
    /\ obs_in_load = FALSE

\* ... whose __init__ has called start_monitoring() on a host with a
\* history file and psutil.
InitFields ==
    /\ InitData
    /\ NoPoll
    /\ kind = "comprehensive"
    /\ hist_ok = TRUE
    /\ psutil_ok = TRUE
    /\ is_monitoring = TRUE
    /\ is_running = [m \in Monitors |-> TRUE]
    /\ thread = [m \in Monitors |-> "alive"]
    /\ cthread = "alive"
    /\ last_call = <<"start_monitoring", "">>
    /\ ncalls = 1
    /\ started = Monitors \cup {"coordinator"}

\* is_comprehensive_monitoring stays False when start_monitoring() raises
\* to _try_start_comprehensive_monitoring (a thread cannot be started).
InitLog ==
    /\ InitFields
    /\ focus \in {"activity", "comprehensive"}
    /\ is_comprehensive_monitoring \in BOOLEAN
    /\ focus = "comprehensive" => is_comprehensive_monitoring
    /\ NoParse
    /\ NoSummary
    /\ probed = <<>>
    /\ NoFault

Activity(A) ==
    /\ focus = "activity"
    /\ A
    /\ UNCHANGED <<modeVars, thVars, lifeVars, pollVars>>
Comprehensive(A) ==
    /\ focus = "comprehensive"
    /\ A
    /\ UNCHANGED <<modeVars, thVars, lifeVars, pollVars>>

NextLog ==
    \/ Activity(LogCommand)
    \/ Activity(LogOutput)
    \/ Activity(LogDirectoryChange)
    \/ Activity(LogFileOperation)
    \/ Activity(CleanupOldData)
    \/ \E m \in Monitors : Comprehensive(PollEmit(m))
    \/ Comprehensive(CoordAcquire)
    \/ Comprehensive(DrainCopy)
    \/ Comprehensive(DrainClear)

SpecLog == InitLog /\ [][NextLog]_vars

(* --------------------- starting and stopping -------------------------- *)

\* Calls of start/stop in one behaviour, and live threads a monitor's
\* self.thread no longer names.
MaxCalls == 3
MaxOrphans == 1
\* Events the poll loops buffer in one behaviour of starts and stops.
MaxPolls == 1

\* The monitors a coordinator owns, in the order it starts and stops them:
\* ComprehensiveTerminalMonitor.monitors, and TerminalMonitor's
\* shell_history_monitor, process_monitor, terminal_content_monitor.
CoordMonitors ==
    IF kind = "comprehensive" THEN MonitorOrder ELSE SubSeq(MonitorOrder, 1, 3)
Owned == {CoordMonitors[i] : i \in 1..Len(CoordMonitors)}
IndexOf(m) == CHOOSE i \in 1..Len(MonitorOrder) : MonitorOrder[i] = m

\* start() goes on to spawn a thread: ShellHistoryMonitor.start returns
\* early without a history file, ProcessWatcher.start without psutil
\* (terminal_monitor.py imports psutil unconditionally).
CanStart(m) ==
    CASE m = "shell_history" -> hist_ok
      [] m = "process_watcher" -> kind = "terminal" \/ psutil_ok
      [] OTHER -> TRUE

\* start_monitoring: if self.is_monitoring: return
StartGuardOff(flag) == FALSE
StartGuard(flag) == flag

\* stop: if self.thread: self.thread.join(timeout=...)
NeedsJoinAlways(th) == TRUE
NeedsJoin(th) == th # "none"

\* join(timeout=1) in comprehensive_monitor.py, join(timeout=2) in
\* terminal_monitor.py; a join with a timeout returns when it expires.
JoinTimeoutOf(k) == IF k = "comprehensive" THEN 1 ELSE 2
JoinNeverExpires(timeout) == FALSE
JoinExpires(timeout) == timeout > 0

\* What _get_existing_terminal_content of TerminalActivityMonitor returns,
\* "" when it finds nothing.
ExistingContent == {"", "pane"}

\* The thread the client's join waits for.
JoinedThread ==
    IF client.i = 0 THEN cthread ELSE thread[MonitorOrder[client.i]]

\* stop_monitoring that ends after the stop() of the first monitor.
AfterStopOfFirst(c) == Idle

\* Where the client is after monitors[c.i].stop() returned, or after the
\* join of the coordination thread (c.i = 0).
AfterStop(c) ==
    IF c.ret = "caller" THEN Idle
    ELSE IF c.i >= 1 /\ c.i < Len(CoordMonitors)
         THEN [op |-> "stop", i |-> c.i + 1, ret |-> "coordinator"]
    ELSE IF c.i >= 1 /\ kind = "terminal" /\ NeedsJoin(cthread)
         THEN [op |-> "join", i |-> 0, ret |-> "coordinator"]
    ELSE Idle

\* The module of the class can be imported: comprehensive_monitor.py has
\* "try: import psutil / except ImportError: psutil = None",
\* terminal_monitor.py a plain "import psutil".
Importable == kind = "comprehensive" \/ psutil_ok

\* The client begins a call.
Call(method, m) ==
    /\ Importable
    /\ client = Idle
    /\ ncalls < MaxCalls
    /\ ncalls' = ncalls + 1
    /\ prev_call' = last_call
    /\ last_call' = <<method, m>>

\* start() of the monitors in ms: self.is_running = True; self.thread =
\* threading.Thread(...); self.thread.start().  The thread self.thread
\* named before runs on.
StartMonitors(ms) ==
    /\ \A m \in ms : CanStart(m) /\ thread[m] = "alive" =>
                         orphans[m] < MaxOrphans
    /\ is_running' = [m \in Monitors |->
                          IF m \in ms /\ CanStart(m) THEN TRUE
                          ELSE is_running[m]]
    /\ thread' = [m \in Monitors |->
                      IF m \in ms /\ CanStart(m) THEN "alive" ELSE thread[m]]
    /\ orphans' = [m \in Monitors |->
                       IF m \in ms /\ CanStart(m) /\ thread[m] = "alive"
                       THEN orphans[m] + 1 ELSE orphans[m]]

\* start_monitoring(), up to the call of
\* _capture_existing_terminal_content (ComprehensiveTerminalMonitor only).
StartMonitoring ==
    /\ Call("start_monitoring", "")
    /\ IF StartGuard(is_monitoring)
       THEN UNCHANGED <<is_monitoring, is_running, thread, orphans, cthread,
                        corphans, coord, client, started>>
       ELSE /\ is_monitoring' = TRUE
            /\ StartMonitors(Owned)
            /\ cthread = "alive" => corphans < MaxOrphans
            /\ corphans' = IF cthread = "alive" THEN corphans + 1
                           ELSE corphans
            /\ cthread' = "alive"
            /\ coord' = [pc |-> "check", i |-> 0, data |-> <<>>,
                         since |-> <<>>]
            /\ client' = IF kind = "comprehensive"
                         THEN [op |-> "capture", i |-> 0, ret |-> ""]
                         ELSE Idle
            /\ started' = started \cup Owned \cup {"coordinator"}
    /\ UNCHANGED <<amVars, terminal_buffer, cm_session_data, cm_lock, buf,
                   arrived, histVars, kind, hist_ok, psutil_ok, raised>>

\* methods of _capture_existing_terminal_content, and what a call of one
\* does: it returns content, returns None, or raises.
Probes ==
    <<"_get_tmux_content", "_get_screen_content", "_get_shell_history",
      "_get_recent_logs">>
ProbeOutcomes == {"content", "none", "raises"}

\* What the four probes do on a host: anything; and the two hosts of the
\* lifecycle below, one with a tmux pane, one where no probe finds content.
AllHosts == [1..Len(Probes) -> ProbeOutcomes]
LifeHosts ==
    {[k \in 1..Len(Probes) |-> IF k = 1 THEN first ELSE "none"] :
         first \in {"content", "none"}}

\* for method in methods: the probes called, from the k-th on, and the
\* contents appended; "break" after the first append.
RECURSIVE CaptureLoopAll(_, _)
CaptureLoopAll(outcomes, k) ==
    IF k > Len(Probes) THEN [ran |-> <<>>, appended |-> <<>>]
    ELSE LET rest == CaptureLoopAll(outcomes, k + 1)
         IN  [ran |-> <<(<<Probes[k], outcomes[k]>>)>> \o rest.ran,
              appended |-> (IF outcomes[k] = "content" THEN <<Probes[k]>>
                            ELSE <<>>) \o rest.appended]
RECURSIVE CaptureLoop(_, _)
CaptureLoop(outcomes, k) ==
    IF k > Len(Probes) THEN [ran |-> <<>>, appended |-> <<>>]
    ELSE IF outcomes[k] = "content"
    THEN [ran |-> <<(<<Probes[k], outcomes[k]>>)>>,
          appended |-> <<Probes[k]>>]
    ELSE LET rest == CaptureLoop(outcomes, k + 1)
         IN  [ran |-> <<(<<Probes[k], outcomes[k]>>)>> \o rest.ran,
              appended |-> rest.appended]

\* self.terminal_buffer.append(f"[EXISTING] {content}") for each content.
RECURSIVE AppendExisting(_, _, _)
AppendExisting(tb, contents, id) ==
    IF contents = <<>> THEN tb
    ELSE AppendExisting(
             DequeAppend(tb, [id |-> id,
                              text |-> "[EXISTING] " \o Head(contents)],
                         TerminalBufferMaxlen),
             Tail(contents), id)

\* _capture_existing_terminal_content: the first probe that returns content
\* is appended under the lock.
CaptureExistingOn(hosts) ==
    /\ client.op = "capture"
    /\ \E outcomes \in hosts :
        LET r == CaptureLoop(outcomes, 1)
        IN  /\ r.appended # <<>> => cm_lock = "free"
            /\ terminal_buffer' =
                   AppendExisting(terminal_buffer, r.appended, 0 - ncalls)
            /\ ins_tb' = ins_tb \o [k \in 1..Len(r.appended) |-> 0 - ncalls]
            /\ probed' = r.ran
    /\ client' = Idle
    /\ UNCHANGED <<amVars, is_monitoring, cm_session_data, cm_lock, coord,
                   monVars, nid, ins_cmd, ins_out, ins_ctx, cleaned,
                   ctx_overflowed, thread, orphans, kind, hist_ok, psutil_ok,
                   cthread, corphans, last_call, prev_call, ncalls, raised,
                   started>>

\* import terminal_monitor without psutil: ImportError, and there is no
\* class to construct.
ImportFails ==
    /\ ~Importable
    /\ ~raised
    /\ raised' = TRUE
    /\ UNCHANGED <<amVars, cmVars, monVars, histVars, thread, orphans, kind,
                   hist_ok, psutil_ok, cthread, corphans, client, last_call,
                   prev_call, ncalls, started>>

\* start() of one source monitor, called directly.
MonitorStart(m) ==
    /\ m \in Owned
    /\ Call("start", m)
    /\ StartMonitors({m})
    /\ started' = started \cup {m}
    /\ UNCHANGED <<amVars, cmVars, buf, arrived, histVars, kind, hist_ok,
                   psutil_ok, cthread, corphans, client, raised>>


\* stop_monitoring(): self.is_monitoring = False, then the monitors' stop()
\* one after the other.
StopMonitoring ==
    /\ Call("stop_monitoring", "")
    /\ is_monitoring' = FALSE
    /\ client' = [op |-> "stop", i |-> 1, ret |-> "coordinator"]
    /\ UNCHANGED <<amVars, terminal_buffer, cm_session_data, cm_lock, coord,
                   monVars, histVars, thread, orphans, kind, hist_ok,
                   psutil_ok, cthread, corphans, raised, started>>

\* stop() of one source monitor, called directly.
MonitorStop(m) ==
    /\ m \in Owned
    /\ Call("stop", m)
    /\ client' = [op |-> "stop", i |-> IndexOf(m), ret |-> "caller"]
    /\ UNCHANGED <<amVars, cmVars, monVars, histVars, thread, orphans, kind,
                   hist_ok, psutil_ok, cthread, corphans, raised, started>>

\* stop(): self.is_running = False; if self.thread: (join)
MonitorStopFlag ==
    /\ client.op = "stop"
    /\ LET m == MonitorOrder[client.i]
       IN  /\ is_running' = [is_running EXCEPT ![m] = FALSE]
           /\ client' = IF NeedsJoin(thread[m])
                        THEN [client EXCEPT !.op = "join"]
                        ELSE AfterStop(client)
    /\ UNCHANGED <<amVars, cmVars, buf, arrived, histVars, thread, orphans,
                   kind, hist_ok, psutil_ok, cthread, corphans, last_call,
                   prev_call, ncalls, raised, started>>

\* join returns at once on a thread that has ended; on None it raises
\* AttributeError, which ComprehensiveTerminalMonitor.stop_monitoring
\* catches and logs.
JoinDone ==
    /\ client.op = "join"
    /\ JoinedThread # "alive"
    /\ IF JoinedThread = "none"
          /\ ~(kind = "comprehensive" /\ client.ret = "coordinator")
       THEN raised' = TRUE /\ client' = Idle
       ELSE raised' = raised /\ client' = AfterStop(client)
    /\ UNCHANGED <<amVars, cmVars, monVars, histVars, thread, orphans, kind,
                   hist_ok, psutil_ok, cthread, corphans, last_call,
                   prev_call, ncalls, started>>

\* join(timeout=...) returns when the timeout expires, the thread alive.
JoinTimeout ==
    /\ client.op = "join"
    /\ JoinedThread = "alive"
    /\ JoinExpires(JoinTimeoutOf(kind))
    /\ client' = AfterStop(client)
    /\ UNCHANGED <<amVars, cmVars, monVars, histVars, thread, orphans, kind,
                   hist_ok, psutil_ok, cthread, corphans, last_call,
                   prev_call, ncalls, raised, started>>

\* A poll loop reads self.is_running False at "while self.is_running" and
\* its thread ends: the thread self.thread names, or an earlier one.
ThreadExit(m) ==
    /\ thread[m] = "alive"
    /\ ~is_running[m]
    /\ thread' = [thread EXCEPT ![m] = "dead"]
    /\ UNCHANGED <<amVars, cmVars, monVars, histVars, orphans, kind, hist_ok,
                   psutil_ok, cthread, corphans, client, last_call, prev_call,
                   ncalls, raised, started>>

OrphanExit(m) ==
    /\ orphans[m] > 0
    /\ ~is_running[m]
    /\ orphans' = [orphans EXCEPT ![m] = @ - 1]
    /\ UNCHANGED <<amVars, cmVars, monVars, histVars, thread, kind, hist_ok,
                   psutil_ok, cthread, corphans, client, last_call, prev_call,
                   ncalls, raised, started>>

\* A coordination loop reads self.is_monitoring False at
\* "while self.is_monitoring" and its thread ends: the thread
\* coordination_thread / monitor_thread names, or an earlier one.
CoordExit(which) ==
    /\ ~is_monitoring
    /\ IF which = "named"
       THEN /\ cthread = "alive"
            /\ coord.pc = "check"
            /\ cthread' = "dead"
            /\ corphans' = corphans
       ELSE /\ corphans > 0
            /\ corphans' = corphans - 1
            /\ cthread' = cthread
    /\ UNCHANGED <<amVars, cmVars, monVars, histVars, thread, orphans, kind,
                   hist_ok, psutil_ok, client, last_call, prev_call, ncalls,
                   raised, started>>

\* An object just constructed and not started: a coordinator, whose caller
\* calls start_monitoring and stop_monitoring (focus = "comprehensive"), or
\* one source monitor on its own, whose caller calls start and stop
\* (focus = the monitor).  kind is the file the class is of.  The steps are
\* those of the caller and of the threads' ends, and for a monitor on its own
\* those of its poll loop; what a coordinator's threads do to the buffers
\* and the Timeline is left to SpecLog.  Where the module of the class cannot
\* be imported there is no object, and the one step is the failing import.
InitLife ==
    /\ InitData
    /\ NoPoll
    /\ kind \in {"comprehensive", "terminal"}
    /\ focus \in {"comprehensive"} \cup Owned
    /\ is_comprehensive_monitoring = FALSE
    /\ NoParse
    /\ NoSummary
    /\ probed = <<>>
    /\ NoFault
    /\ hist_ok \in BOOLEAN
    /\ psutil_ok \in BOOLEAN
    /\ is_monitoring = FALSE
    /\ is_running = [m \in Monitors |-> FALSE]
    /\ thread = [m \in Monitors |-> "none"]
    /\ cthread = "none"
    /\ last_call = NoCall
    /\ ncalls = 0
    /\ started = {}

\* Every step but the capture of existing content forgets the probes.
Life(A) ==
    /\ A
    /\ probed' = <<>>
    /\ UNCHANGED <<focus, is_comprehensive_monitoring, parseVars, sumVars,
                   fault, thVars, pollVars>>
Coordinator(A) == focus = "comprehensive" /\ Life(A)
Solo(m, A) == focus = m /\ Life(A)
Capturing(A) ==
    /\ focus = "comprehensive"
    /\ A
    /\ UNCHANGED <<focus, is_comprehensive_monitoring, parseVars, sumVars,
                   fault, thVars, pollVars>>

StopStep == MonitorStopFlag \/ JoinDone \/ JoinTimeout

NextLife ==
    \/ Life(ImportFails)
    \/ Coordinator(StartMonitoring)
    \/ Capturing(CaptureExistingOn(LifeHosts))
    \/ \E m \in Monitors : Solo(m, MonitorStart(m))
    \/ Coordinator(StopMonitoring)
    \/ \E m \in Monitors : Solo(m, MonitorStop(m))
    \/ Life(MonitorStopFlag)
    \/ Life(JoinDone)
    \/ Life(JoinTimeout)
    \/ \E m \in Monitors : Life(ThreadExit(m))
    \/ \E m \in Monitors : Life(OrphanExit(m))
    \/ \E which \in {"named", "earlier"} : Coordinator(CoordExit(which))
    \/ \E m \in Monitors :
           Solo(m, nid < MaxPolls /\ PollEmit(m) /\ UNCHANGED lifeVars)

SpecLife == InitLife /\ [][NextLife]_vars

\* The ComprehensiveTerminalMonitor alone, on any host; a poll thread that
\* a restart has orphaned is not followed to its end.
InitCapture == InitLife /\ focus = "comprehensive" /\ kind = "comprehensive"

NextCapture ==
    \/ Coordinator(StartMonitoring)
    \/ Capturing(CaptureExistingOn(AllHosts))
    \/ Coordinator(StopMonitoring)
    \/ Life(MonitorStopFlag)
    \/ Life(JoinDone)
    \/ Life(JoinTimeout)
    \/ \E m \in Monitors : Life(ThreadExit(m))
    \/ \E which \in {"named", "earlier"} : Coordinator(CoordExit(which))

SpecCapture == InitCapture /\ [][NextCapture]_vars

\* The caller's thread runs: a statement of stop that can execute does.
\* Nothing is assumed of the poll threads and the coordination thread.
FairLife == SpecLife /\ WF_vars(Life(StopStep))



\* Every thread runs: the caller goes on with its stop, a poll loop and a
\* coordination loop that would read their flag False do so (each poll
\* cycle and each sleep ends).
FairShutdown ==
    /\ SpecLife
    /\ WF_vars(Life(StopStep))
    /\ \A m \in Monitors : WF_vars(Life(ThreadExit(m)))
    /\ \A m \in Monitors : WF_vars(Life(OrphanExit(m)))
    /\ \A which \in {"named", "earlier"} :
           WF_vars(Coordinator(CoordExit(which)))


(* ------------------- a source monitor that fails ---------------------- *)

\* deque(maxlen=1000), deque(maxlen=500) and deque(maxlen=200) of
\* TerminalMonitor.terminal_buffer, command_history and process_history.
TmTerminalBufferMaxlen == 1000
TmCommandHistoryMaxlen == 500
TmProcessHistoryMaxlen == 200

\* The monitors whose start() raises in one start_monitoring: none or one.
\* start() raises where threading.Thread.start() does (RuntimeError, no
\* thread can be started): is_running is set, self.thread is a thread that
\* never ran.
StartFaults == {{}} \cup {{m} : m \in Owned}

\* The monitors start_monitoring calls start() on when those in raises
\* raise: ComprehensiveTerminalMonitor catches and goes on, TerminalMonitor
\* has no try and ends at the first start() that raises.
StartReached(raises) ==
    IF kind = "comprehensive" THEN Owned
    ELSE {CoordMonitors[i] : i \in
              {j \in 1..Len(CoordMonitors) :
                   \A h \in 1..(j - 1) : CoordMonitors[h] \notin raises}}

\* start_monitoring() of a coordinator just constructed.  The exception of
\* a start() leaves TerminalMonitor.start_monitoring before monitor_thread
\* is created.
StartMonitoringWith(raises) ==
    /\ Call("start_monitoring", "")
    /\ started = {}
    /\ ~StartGuard(is_monitoring)
    /\ is_monitoring' = TRUE
    /\ LET reached == {m \in StartReached(raises) : CanStart(m)}
           escapes == kind = "terminal" /\ reached \cap raises # {}
       IN  /\ is_running' = [m \in Monitors |->
                                 IF m \in reached THEN TRUE ELSE is_running[m]]
           /\ thread' = [m \in Monitors |->
                             IF m \in reached \ raises THEN "alive"
                             ELSE IF m \in reached THEN "unstarted"
                             ELSE thread[m]]
           /\ raised' = escapes
           /\ cthread' = IF escapes THEN cthread ELSE "alive"
           /\ fault' = [fault EXCEPT !.start = reached \cap raises]
           /\ started' = StartReached(raises) \cup {"coordinator"}
    /\ client' = IF kind = "comprehensive"
                 THEN [op |-> "capture", i |-> 0, ret |-> ""]
                 ELSE Idle
    /\ UNCHANGED <<amVars, terminal_buffer, cm_session_data, cm_lock, coord,
                   buf, arrived, histVars, orphans, kind, hist_ok, psutil_ok,
                   corphans>>

\* _monitor_loop of TerminalMonitor, one monitor's part of the cycle:
\* the commands go to command_history and terminal_buffer, the processes to
\* process_history, the content to terminal_buffer.
RECURSIVE TmBuffer(_, _, _)
TmBuffer(tb, m, data) ==
    IF data = <<>> \/ m = "process_watcher" THEN tb
    ELSE TmBuffer(
             DequeAppend(tb,
                         IF m = "shell_history"
                         THEN BufferEntry(m, Head(data))[1]
                         ELSE Head(data),
                         TmTerminalBufferMaxlen),
             m, Tail(data))
RECURSIVE TmHistory(_, _, _)
TmHistory(h, data, maxlen) ==
    IF data = <<>> THEN h
    ELSE TmHistory(DequeAppend(h, Head(data), maxlen), Tail(data), maxlen)
TmSession(sd, m, data) ==
    CASE m = "shell_history" ->
           [sd EXCEPT !.commands = TmHistory(@, data, TmCommandHistoryMaxlen)]
      [] m = "process_watcher" ->
           [sd EXCEPT !.processes = TmHistory(@, data, TmProcessHistoryMaxlen)]
      [] OTHER -> sd

\* The coordination loop after the part of monitor i: the next monitor, or
\* the end of the cycle, where the lock is released and the loop sleeps.
CycleGoesOn(i) ==
    IF i < Len(CoordMonitors)
    THEN /\ coord' = [pc |-> "copy", i |-> i + 1, data |-> <<>>,
                      since |-> <<>>]
         /\ cm_lock' = cm_lock
    ELSE /\ coord' = [pc |-> "check", i |-> 0, data |-> <<>>, since |-> <<>>]
         /\ cm_lock' = WithExit(cm_lock)
CycleEnds ==
    /\ coord' = [pc |-> "check", i |-> 0, data |-> <<>>, since |-> <<>>]
    /\ cm_lock' = WithExit(cm_lock)

\* The second statement of get_new_commands / get_new_processes /
\* get_new_content, and the for loop of _monitor_loop over what it returned.
TmDrainClear ==
    /\ kind = "terminal"
    /\ coord.pc = "clear"
    /\ LET m == MonitorOrder[coord.i]
       IN  /\ buf' = [buf EXCEPT ![m] = Cleared(@)]
           /\ arrived' = [arrived EXCEPT ![m] = <<>>]
           /\ terminal_buffer' = TmBuffer(terminal_buffer, m, coord.data)
           /\ cm_session_data' = TmSession(cm_session_data, m, coord.data)
           /\ ins_tb' = ins_tb \o (IF m = "process_watcher" THEN <<>>
                                   ELSE Ids(coord.data))
    /\ CycleGoesOn(coord.i)
    /\ UNCHANGED <<amVars, is_monitoring, is_running, nid, ins_cmd, ins_out,
                   ins_ctx, cleaned, ctx_overflowed>>

\* The drain of monitor coord.i raises (list(deque) raises RuntimeError when
\* the deque is appended to meanwhile).  _coordination_loop catches it in
\* the for loop and goes on with the next monitor; _monitor_loop catches it
\* outside of "with self.lock" and sleeps.
RaiseEndsCycle(k) == k = "terminal"
DrainRaises ==
    /\ coord.pc = "copy"
    /\ fault.drain = {}
    /\ fault' = [fault EXCEPT !.drain = {MonitorOrder[coord.i]}]
    /\ IF RaiseEndsCycle(kind) THEN CycleEnds ELSE CycleGoesOn(coord.i)
    /\ UNCHANGED <<amVars, is_monitoring, terminal_buffer, cm_session_data,
                   monVars, histVars>>

\* A coordinator just constructed, on a host where every module imports.
\* Its caller calls start_monitoring once; then the poll loops emit and the
\* coordination loop merges.  One start() and, in each merge cycle, one
\* drain may raise.
InitFault ==
    /\ InitData
    /\ NoPoll
    /\ kind \in {"comprehensive", "terminal"}
    /\ focus = "comprehensive"
    /\ is_comprehensive_monitoring = FALSE
    /\ NoParse
    /\ NoSummary
    /\ probed = <<>>
    /\ NoFault
    /\ hist_ok \in BOOLEAN
    /\ psutil_ok = TRUE
    /\ is_monitoring = FALSE
    /\ is_running = [m \in Monitors |-> FALSE]
    /\ thread = [m \in Monitors |-> "none"]
    /\ cthread = "none"
    /\ last_call = NoCall
    /\ ncalls = 0
    /\ started = {}

\* A step of the caller, and a step of the threads, which leaves the
\* caller's variables alone.
Faulty(A) ==
    /\ A
    /\ UNCHANGED <<focus, is_comprehensive_monitoring, parseVars, sumVars,
                   probed, thVars, pollVars>>
Merging(A) == Faulty(A) /\ UNCHANGED lifeVars

NextFault ==
    \/ \E raises \in StartFaults : Faulty(StartMonitoringWith(raises))
    \/ Capturing(CaptureExistingOn(LifeHosts))
    \/ \E m \in Monitors :
           Merging(nid < MaxPolls /\ PollEmit(m) /\ UNCHANGED fault)
    \/ Merging(CoordAcquire
               /\ fault' = [fault EXCEPT !.drain = {}, !.drained = <<>>])
    \/ Merging(DrainCopy /\ UNCHANGED fault)
    \/ Merging(DrainRaises)
    \/ Merging(/\ kind = "comprehensive"
               /\ DrainClear
               /\ fault' = [fault EXCEPT
                                !.drained = Append(@, MonitorOrder[coord.i])])
    \/ Merging(/\ TmDrainClear
               /\ fault' = [fault EXCEPT
                                !.drained = Append(@, MonitorOrder[coord.i])])

SpecFault == InitFault /\ [][NextFault]_vars


(* -------------------- stopping while the threads run ------------------ *)

\* A coordinator that is started once and then stopped, while the poll
\* loops emit and the coordination loop merges.  The coordinator is one
\* just constructed, which its caller starts, or the
\* ComprehensiveTerminalMonitor that TerminalActivityMonitor.__init__ has
\* constructed and started (_try_start_comprehensive_monitoring): ncalls
\* counts the calls made after that.
InitStop ==
    /\ InitData
    /\ NoPoll
    /\ kind \in {"comprehensive", "terminal"}
    /\ focus = "comprehensive"
    /\ is_comprehensive_monitoring \in BOOLEAN
    /\ is_comprehensive_monitoring => kind = "comprehensive"
    /\ NoParse
    /\ NoSummary
    /\ probed = <<>>
    /\ NoFault
    /\ hist_ok = TRUE
    /\ psutil_ok = TRUE
    /\ is_monitoring = is_comprehensive_monitoring
    /\ is_running = [m \in Monitors |-> is_comprehensive_monitoring]
    /\ thread = [m \in Monitors |->
                     IF is_comprehensive_monitoring THEN "alive" ELSE "none"]
    /\ cthread = IF is_comprehensive_monitoring THEN "alive" ELSE "none"
    /\ last_call = IF is_comprehensive_monitoring
                   THEN <<"start_monitoring", "">> ELSE NoCall
    /\ ncalls = 0
    /\ started = IF is_comprehensive_monitoring
                 THEN Monitors \cup {"coordinator"} ELSE {}

NextStop ==
    \/ Coordinator(started = {} /\ StartMonitoring)
    \/ Capturing(CaptureExistingOn(LifeHosts))
    \/ Coordinator(StopMonitoring)
    \/ Life(MonitorStopFlag)
    \/ Life(JoinDone)
    \/ Life(JoinTimeout)
    \/ \E m \in Monitors : Life(ThreadExit(m))
    \/ Coordinator(CoordExit("named"))
    \/ \E m \in Monitors :
           Merging(nid < MaxPolls /\ PollEmit(m) /\ UNCHANGED fault)
    \/ Merging(CoordAcquire /\ UNCHANGED fault)
    \/ Merging(DrainCopy /\ UNCHANGED fault)
    \/ Merging(kind = "comprehensive" /\ DrainClear /\ UNCHANGED fault)
    \/ Merging(TmDrainClear /\ UNCHANGED fault)

SpecStop == InitStop /\ [][NextStop]_vars


(* ------------------------- the poll cycles ---------------------------- *)

\* A text read from a file or from the process table is the sequence of its
\* characters.
Whitespace == {" ", "\t", "\n"}

RECURSIVE LStrip(_)
LStrip(s) ==
    IF s # <<>> /\ Head(s) \in Whitespace THEN LStrip(Tail(s)) ELSE s

RECURSIVE RStrip(_)
RStrip(s) ==
    IF s # <<>> /\ s[Len(s)] \in Whitespace
    THEN RStrip(SubSeq(s, 1, Len(s) - 1)) ELSE s

\* str.strip()
Strip(s) == RStrip(LStrip(s))

\* str.startswith(prefix)
StartsWith(s, prefix) ==
    Len(s) >= Len(prefix) /\ SubSeq(s, 1, Len(prefix)) = prefix

\* sub in s
Contains(sub, s) ==
    \E k \in 0..(Len(s) - Len(sub)) : SubSeq(s, k + 1, k + Len(sub)) = sub

\* str.split(sep, 1): one part, or the parts before and after the first sep.
SplitOnce(s, sep) ==
    IF \E k \in 1..Len(s) : s[k] = sep
    THEN LET k == CHOOSE k \in 1..Len(s) :
                      s[k] = sep /\ \A j \in 1..(k - 1) : s[j] # sep
         IN  <<SubSeq(s, 1, k - 1), SubSeq(s, k + 1, Len(s))>>
    ELSE <<s>>

\* str.lower(), on the letters the process names below are written with.
LowerChar(c) ==
    CASE c = "B" -> "b" [] c = "V" -> "v" [] c = "S" -> "s" [] OTHER -> c
Lower(s) == [k \in 1..Len(s) |-> LowerChar(s[k])]

\* ' '.join(parts)
RECURSIVE JoinSpace(_)
JoinSpace(parts) ==
    IF parts = <<>> THEN <<>>
    ELSE IF Len(parts) = 1 THEN parts[1]
    ELSE parts[1] \o <<" ">> \o JoinSpace(Tail(parts))

\* A parse that knows nothing of zsh's extended format.
ParseHistoryLineWhole(line) == Strip(line)

\* ShellHistoryMonitor._parse_history_line (comprehensive_monitor.py): the
\* command of a stripped line.
ParseHistoryLine(line) ==
    IF StartsWith(line, <<":", " ">>) /\ Len(SplitOnce(line, ";")) > 1
    THEN Strip(SplitOnce(line, ";")[2])
    ELSE Strip(line)

\* ShellHistoryMonitor._read_new_history (terminal_monitor.py), the same
\* for a stripped line.
ReadHistoryLine(line) ==
    IF StartsWith(line, <<":", " ">>)
    THEN IF Len(SplitOnce(line, ";")) > 1
         THEN Strip(SplitOnce(line, ";")[2])
         ELSE line
    ELSE line

\* The commands of the lines a poll reads, in order: lines that are empty
\* after strip() or start with '#' and lines with an empty command are
\* skipped.
RECURSIVE CommandsOf(_, _)
CommandsOf(lines, variant) ==
    IF lines = <<>> THEN <<>>
    ELSE LET line == Strip(Head(lines))
             command == IF variant = "comprehensive"
                        THEN ParseHistoryLine(line)
                        ELSE ReadHistoryLine(line)
         IN  (IF line # <<>> /\ ~StartsWith(line, <<"#">>) /\ command # <<>>
              THEN <<command>> ELSE <<>>)
                 \o CommandsOf(Tail(lines), variant)

\* interesting_names of ProcessWatcher._is_interesting_process, and
\* interesting_names, interesting_patterns of ProcessMonitor.
\* _is_interesting_process.
InterestingNames ==
    {<<"b", "a", "s", "h">>, <<"z", "s", "h">>, <<"f", "i", "s", "h">>,
     <<"s", "h">>, <<"p", "y", "t", "h", "o", "n">>, <<"n", "o", "d", "e">>,
     <<"n", "p", "m">>, <<"p", "i", "p">>, <<"v", "i", "m">>,
     <<"n", "a", "n", "o">>, <<"e", "m", "a", "c", "s">>,
     <<"c", "o", "d", "e">>, <<"g", "i", "t">>,
     <<"d", "o", "c", "k", "e", "r">>, <<"k", "u", "b", "e", "c", "t", "l">>,
     <<"s", "s", "h">>, <<"r", "s", "y", "n", "c">>, <<"c", "u", "r", "l">>,
     <<"w", "g", "e", "t">>, <<"m", "a", "k", "e">>, <<"g", "c", "c">>,
     <<"j", "a", "v", "a">>}
TerminalInterestingNames ==
    {<<"b", "a", "s", "h">>, <<"z", "s", "h">>, <<"f", "i", "s", "h">>,
     <<"s", "h">>, <<"p", "y", "t", "h", "o", "n">>, <<"n", "o", "d", "e">>,
     <<"v", "i", "m">>, <<"n", "a", "n", "o">>, <<"e", "m", "a", "c", "s">>,
     <<"g", "i", "t">>, <<"d", "o", "c", "k", "e", "r">>,
     <<"k", "u", "b", "e", "c", "t", "l">>}
TerminalInterestingPatterns ==
    {<<"s", "s", "h">>, <<"r", "s", "y", "n", "c">>, <<"c", "u", "r", "l">>,
     <<"w", "g", "e", "t">>, <<"p", "i", "p">>, <<"n", "p", "m">>,
     <<"y", "a", "r", "n">>}


\* The elements of a set of numbers, ascending.
RECURSIVE Ascending(_)
Ascending(S) ==
    IF S = {} THEN <<>>
    ELSE LET least == CHOOSE x \in S : \A y \in S : x <= y
         IN  <<least>> \o Ascending(S \ {least})

\* ProcessWatcher._is_interesting_process(proc_info), for an info whose
\* cmdline is a list.
IsInterestingProcess(info) ==
    \E interesting \in InterestingNames :
        \/ Contains(interesting, Lower(info.name))
        \/ Contains(interesting, Lower(JoinSpace(info.cmdline)))

\* ProcessMonitor._is_interesting_process(name, cmdline)
TerminalIsInterestingProcess(name, cmdline) ==
    \/ \E interesting \in TerminalInterestingNames :
           Contains(interesting, Lower(name))
    \/ \E pattern \in TerminalInterestingPatterns :
           Contains(pattern, Lower(cmdline))

\* The first loop of _monitor_processes over the processes pids of table,
\* from acc = [events, cache, error]: a pid not in known_pids that is
\* interesting gives a "started" event (and, in ProcessWatcher, an entry of
\* process_cache).  ProcessWatcher joins a cmdline that is None: TypeError,
\* which ends the cycle.
RECURSIVE ScanNew(_, _, _, _, _)
ScanNew(pids, table, known, variant, acc) ==
    IF pids = <<>> \/ acc.error THEN acc
    ELSE LET pid == Head(pids)
             info == table[pid]
             proc_entry == [pid |-> pid, name |-> info.name,
                            action |-> "started"]
         IN  IF pid \in known
             THEN ScanNew(Tail(pids), table, known, variant, acc)
             ELSE IF variant = "comprehensive"
             THEN IF info.cmdline_none
                  THEN [acc EXCEPT !.error = TRUE]
                  ELSE IF IsInterestingProcess(info)
                  THEN ScanNew(Tail(pids), table, known, variant,
                               [acc EXCEPT
                                    !.events = Append(@, proc_entry),
                                    !.cache = [p \in DOMAIN @ \cup {pid} |->
                                                   IF p = pid THEN info
                                                   ELSE @[p]]])
                  ELSE ScanNew(Tail(pids), table, known, variant, acc)
             ELSE IF TerminalIsInterestingProcess(
                         info.name,
                         IF info.cmdline_none \/ info.cmdline = <<>>
                         THEN info.name ELSE JoinSpace(info.cmdline))
                  THEN ScanNew(Tail(pids), table, known, variant,
                               [acc EXCEPT !.events = Append(@, proc_entry)])
                  ELSE ScanNew(Tail(pids), table, known, variant, acc)

\* The second loop, over terminated_pids: ProcessWatcher reports the pids
\* it has in process_cache and forgets them, ProcessMonitor every pid.
RECURSIVE ScanTerminated(_, _, _)
ScanTerminated(pids, variant, acc) ==
    IF pids = <<>> \/ acc.error THEN acc
    ELSE LET pid == Head(pids)
         IN  IF variant = "comprehensive"
             THEN IF pid \in DOMAIN acc.cache
                  THEN ScanTerminated(
                           Tail(pids), variant,
                           [acc EXCEPT
                                !.events =
                                    Append(@, [pid |-> pid,
                                               name |-> acc.cache[pid].name,
                                               action |-> "terminated"]),
                                !.cache = [p \in DOMAIN @ \ {pid} |-> @[p]]])
                  ELSE ScanTerminated(Tail(pids), variant, acc)
             ELSE ScanTerminated(
                      Tail(pids), variant,
                      [acc EXCEPT
                           !.events = Append(@, [pid |-> pid, name |-> <<>>,
                                                 action |-> "terminated"])])

\* One cycle of _monitor_processes: [events, cache, error].
ProcessCycle(table, known, cache, variant) ==
    ScanTerminated(
        Ascending(known \ DOMAIN table), variant,
        ScanNew(Ascending(DOMAIN table), table, known, variant,
                [events |-> <<>>, cache |-> cache, error |-> FALSE]))

\* A diff that looks only at the keys last_env has.
RECURSIVE EnvironmentCycleKnownKeys(_, _, _)
EnvironmentCycleKnownKeys(keys, current_env, last) ==
    IF keys = <<>> THEN <<>>
    ELSE LET key == Head(keys)
         IN  (IF key \in DOMAIN current_env /\ key \in DOMAIN last
                 /\ last[key] # current_env[key]
              THEN <<[variable |-> key, value |-> current_env[key],
                      action |-> "changed"]>>
              ELSE <<>>)
                 \o EnvironmentCycleKnownKeys(Tail(keys), current_env, last)


\* One cycle of _monitor_environment: an event for every key of
\* current_env that last_env lacks or has with another value.
RECURSIVE EnvironmentCycle(_, _, _)
EnvironmentCycle(keys, current_env, last) ==
    IF keys = <<>> THEN <<>>
    ELSE LET key == Head(keys)
         IN  (IF key \in DOMAIN current_env
                 /\ (key \notin DOMAIN last \/ last[key] # current_env[key])
              THEN <<[variable |-> key, value |-> current_env[key],
                      action |-> "changed"]>>
              ELSE <<>>)
                 \o EnvironmentCycle(Tail(keys), current_env, last)

\* "Avoid duplicates" of _read_new_history: a command equal to the command
\* of the last buffered entry is not appended.
RECURSIVE AppendNoRepeat(_, _, _)
AppendNoRepeat(d, commands, maxlen) ==
    IF commands = <<>> THEN <<>>
    ELSE IF d # <<>> /\ d[Len(d)].command = Head(commands)
         THEN AppendNoRepeat(d, Tail(commands), maxlen)
    ELSE <<Head(commands)>>
             \o AppendNoRepeat(
                    DequeAppend(d, [command |-> Head(commands)], maxlen),
                    Tail(commands), maxlen)


\* lines[-10:] of _process_history_update and lines[-50:] of
\* _read_new_history, scaled; lines written to the history file in one
\* behaviour.
HistoryTail == 2
MaxHistLines == 3

\* Lines a shell writes to its history file: a command, the same in zsh's
\* extended format, a comment, another command with a trailing blank.
HistoryLinePool ==
    {<<"l", "s">>, <<":", " ", "1", ";", "l", "s">>, <<"#", "c">>,
     <<"p", "w", "d", " ">>}
InitialHistories == {<<>>, <<(<<"l", "s">>)>>}

\* The processes of the host: a shell, a daemon that is not in the lists
\* and whose cmdline psutil may give as None, an editor.
Pids == {1, 2, 3}
ProcInfoOf(pid, unreadable) ==
    CASE pid = 1 -> [name |-> <<"b", "a", "s", "h">>,
                     cmdline |-> <<<<"-", "b", "a", "s", "h">>>>,
                     cmdline_none |-> FALSE]
      [] pid = 2 -> [name |-> <<"c", "r", "o", "n">>,
                     cmdline |-> IF unreadable THEN <<>>
                                 ELSE <<<<"c", "r", "o", "n">>, <<"-", "f">>>>,
                     cmdline_none |-> unreadable]
      [] OTHER -> [name |-> <<"V", "i", "m">>,
                   cmdline |-> <<<<"V", "i", "m">>, <<"a">>>>,
                   cmdline_none |-> FALSE]
ProcTables ==
    {[pid \in S |-> ProcInfoOf(pid, unreadable)] :
         S \in SUBSET Pids, unreadable \in BOOLEAN}

\* os.environ: the variables set, and their values.
EnvKeys == <<"PATH", "LANG">>
EnvValues(key) == IF key = "PATH" THEN {"a", "b"} ELSE {"a"}
InitialEnvs == {[key \in {"PATH"} |-> "a"]}

\* The handler of "except Exception" in a poll loop: log, time.sleep(...),
\* and the loop goes on.
OnPollErrorEnd == "ended"
OnPollError == "backoff"

\* An event as it is buffered: with the time of the poll.
Stamped(e, id) == [id |-> id, timestamp |-> StrfTime(0)] @@ e

\* d after events are appended to it, the first with the id first_id.
RECURSIVE AppendAll(_, _, _, _)
AppendAll(d, events, first_id, maxlen) ==
    IF events = <<>> THEN d
    ELSE AppendAll(DequeAppend(d, Stamped(Head(events), first_id), maxlen),
                   Tail(events), first_id + 1, maxlen)

\* One cycle of the poll loop of monitor m: the events it buffers, whether
\* an exception ended it, and the fields it leaves.  io_error: a call of
\* the cycle (os.stat, psutil.process_iter, os.environ) raised.
CycleResult(m, io_error) ==
    LET same == [events |-> <<>>, error |-> FALSE,
                 last_checked |-> last_checked, known_pids |-> known_pids,
                 process_cache |-> process_cache, last_env |-> last_env]
    IN  IF m \notin Emitters THEN same
        ELSE IF io_error THEN [same EXCEPT !.error = TRUE]
        ELSE IF m = "shell_history"
        THEN LET commands ==
                     CommandsOf(LastN(hist_lines, HistoryTail), kind)
             IN  IF kind = "comprehensive"
                 THEN IF hist_mtime > last_checked
                      THEN [same EXCEPT
                                !.events =
                                    [k \in 1..Len(commands) |->
                                         [command |-> commands[k],
                                          source |-> "shell_history"]],
                                !.last_checked = hist_mtime]
                      ELSE same
                 ELSE IF Len(hist_lines) # last_checked
                      THEN [same EXCEPT
                                !.events =
                                    LET kept == AppendNoRepeat(
                                                    buf[m], commands,
                                                    MonitorBufMaxlen)
                                    IN  [k \in 1..Len(kept) |->
                                             [command |-> kept[k],
                                              source |-> "history"]],
                                !.last_checked = Len(hist_lines)]
                      ELSE same
        ELSE IF m = "process_watcher"
        THEN LET r == ProcessCycle(proc_table, known_pids, process_cache,
                                   kind)
             IN  [same EXCEPT
                      !.events = r.events,
                      !.error = r.error,
                      !.process_cache = r.cache,
                      !.known_pids = IF r.error THEN known_pids
                                     ELSE DOMAIN proc_table]
        ELSE [same EXCEPT
                  !.events = EnvironmentCycle(EnvKeys, os_env, last_env),
                  !.last_env = os_env]


\* while self.is_running: the poll thread goes into a cycle, or ends.
PollCheck(m) ==
    /\ thread[m] = "alive"
    /\ loop.pc = "check"
    /\ IF is_running[m]
       THEN loop' = [pc |-> "cycle", failed |-> FALSE] /\ thread' = thread
       ELSE /\ loop' = [loop EXCEPT !.pc = "ended"]
            /\ thread' = [thread EXCEPT ![m] = "dead"]
    /\ UNCHANGED <<amVars, cmVars, monVars, histVars, orphans, kind, hist_ok,
                   psutil_ok, cthread, corphans, client, last_call, prev_call,
                   ncalls, raised, started, hist_lines, hist_mtime,
                   last_checked, proc_table, known_pids, process_cache,
                   os_env, last_env, cycle>>

\* The body of the loop, up to time.sleep: try: ... except Exception: ...
PollCycle(m) ==
    /\ loop.pc = "cycle"
    /\ \E io_error \in BOOLEAN : \E r \in {CycleResult(m, io_error)} :
        LET n == Len(r.events)
        IN  /\ io_error => m \in Emitters
            /\ nid + n <= MaxIds
            /\ buf' = [buf EXCEPT ![m] = AppendAll(@, r.events, nid + 1,
                                                   MonitorBufMaxlen)]
            /\ arrived' = [arrived EXCEPT
                               ![m] = @ \o [k \in 1..n |-> nid + k]]
            /\ nid' = nid + n
            /\ last_checked' = r.last_checked
            /\ known_pids' = r.known_pids
            /\ process_cache' = r.process_cache
            /\ last_env' = r.last_env
            /\ loop' = IF r.error THEN [pc |-> OnPollError, failed |-> TRUE]
                       ELSE [pc |-> "sleep", failed |-> FALSE]
            /\ cycle' = [m |-> m, error |-> r.error, events |-> r.events,
                         ids |-> [k \in 1..n |-> nid + k]]
    /\ thread' = IF loop'.pc = "ended" THEN [thread EXCEPT ![m] = "dead"]
                 ELSE thread
    /\ UNCHANGED <<amVars, cmVars, is_running, ins_cmd, ins_out, ins_ctx,
                   ins_tb, cleaned, ctx_overflowed, orphans, kind, hist_ok,
                   psutil_ok, cthread, corphans, client, last_call, prev_call,
                   ncalls, raised, started, hist_lines, hist_mtime,
                   proc_table, os_env>>

\* time.sleep(...) returns.
PollWake(m) ==
    /\ thread[m] = "alive"
    /\ loop.pc \in {"sleep", "backoff"}
    /\ loop' = [loop EXCEPT !.pc = "check"]
    /\ UNCHANGED <<amVars, cmVars, monVars, histVars, lifeVars, hist_lines,
                   hist_mtime, last_checked, proc_table, known_pids,
                   process_cache, os_env, last_env, cycle>>

\* The shell appends a line to its history file.
HistoryAppend ==
    /\ Len(hist_lines) < MaxHistLines
    /\ \E line \in HistoryLinePool : hist_lines' = Append(hist_lines, line)
    /\ hist_mtime' = hist_mtime + 1
    /\ UNCHANGED <<amVars, cmVars, monVars, histVars, lifeVars, loop,
                   last_checked, proc_table, known_pids, process_cache,
                   os_env, last_env, cycle>>

\* A process starts or ends.
ProcChange ==
    /\ \E table \in ProcTables, pid \in Pids :
           /\ DOMAIN table \in {DOMAIN proc_table \cup {pid},
                                 DOMAIN proc_table \ {pid}}
           /\ \A p \in DOMAIN table \cap DOMAIN proc_table :
                  table[p] = proc_table[p]
           /\ table # proc_table
           /\ proc_table' = table
    /\ UNCHANGED <<amVars, cmVars, monVars, histVars, lifeVars, loop,
                   hist_lines, hist_mtime, last_checked, known_pids,
                   process_cache, os_env, last_env, cycle>>

\* os.environ[key] = value, del os.environ[key]
EnvSet ==
    /\ \E i \in 1..Len(EnvKeys) : \E value \in EnvValues(EnvKeys[i]) :
           os_env' = [key \in DOMAIN os_env \cup {EnvKeys[i]} |->
                          IF key = EnvKeys[i] THEN value ELSE os_env[key]]
    /\ os_env' # os_env
    /\ UNCHANGED <<amVars, cmVars, monVars, histVars, lifeVars, loop,
                   hist_lines, hist_mtime, last_checked, proc_table,
                   known_pids, process_cache, last_env, cycle>>

EnvUnset ==
    /\ \E gone \in DOMAIN os_env :
           os_env' = [key \in DOMAIN os_env \ {gone} |-> os_env[key]]
    /\ UNCHANGED <<amVars, cmVars, monVars, histVars, lifeVars, loop,
                   hist_lines, hist_mtime, last_checked, proc_table,
                   known_pids, process_cache, last_env, cycle>>

\* One source monitor (focus) on its own, started: its poll thread runs, what
\* it polls changes, and its caller may call stop(), once.
InitPoll ==
    /\ InitData
    /\ kind \in {"comprehensive", "terminal"}
    /\ focus \in Owned
    /\ is_comprehensive_monitoring = FALSE
    /\ NoParse
    /\ NoSummary
    /\ probed = <<>>
    /\ NoFault
    /\ hist_ok = TRUE
    /\ psutil_ok = TRUE
    /\ is_monitoring = FALSE
    /\ is_running = [m \in Monitors |-> m = focus]
    /\ thread = [m \in Monitors |-> IF m = focus THEN "alive" ELSE "none"]
    /\ cthread = "none"
    /\ last_call = <<"start", focus>>
    /\ ncalls = 1
    /\ started = {focus}
    /\ loop = [pc |-> "check", failed |-> FALSE]
    /\ hist_lines \in IF focus = "shell_history" THEN InitialHistories
                      ELSE {<<>>}
    /\ hist_mtime = 0
    /\ last_checked = 0
    /\ proc_table \in IF focus = "process_watcher" THEN ProcTables
                      ELSE {<<>>}
    /\ known_pids = {}
    /\ process_cache = <<>>
    /\ os_env \in InitialEnvs
    /\ last_env = os_env
    /\ cycle = NoCycle

Polled(m, A) == focus = m /\ A /\ UNCHANGED <<modeVars, thVars>>
PollTurn(m) == PollCheck(m) \/ PollWake(m)

NextPoll ==
    \/ \E m \in Monitors : Polled(m, PollCheck(m))
    \/ \E m \in Monitors : Polled(m, PollCycle(m))
    \/ \E m \in Monitors : Polled(m, PollWake(m))
    \/ Polled("shell_history", HistoryAppend)
    \/ Polled("process_watcher", ProcChange)
    \/ Polled("environment_monitor", EnvSet)
    \/ Polled("environment_monitor", EnvUnset)
    \/ \E m \in Monitors : Solo(m, last_call[1] = "start" /\ MonitorStop(m))
    \/ Life(MonitorStopFlag)
    \/ Life(JoinDone)
    \/ Life(JoinTimeout)

SpecPoll == InitPoll /\ [][NextPoll]_vars

\* The poll thread runs: its sleep returns and its loop condition is
\* evaluated.  (The body of a cycle may block in a system call.)
FairPoll == SpecPoll /\ WF_vars(Polled(focus, PollTurn(focus)))


(* --------------------- one line of the history file ------------------- *)

\* The lines of a history file: at most MaxLine characters out of those
\* that the parsing of a line tells apart.
MaxLine == 4
LineChars == {":", " ", ";", "#", "l"}
HistoryLines == SeqsUpTo({<<c>> : c \in LineChars}, MaxLine)

\* A ShellHistoryMonitor of either module, started, and a history file of
\* one line written after the monitor was constructed.
InitHistLine ==
    /\ InitData
    /\ kind \in {"comprehensive", "terminal"}
    /\ focus = "shell_history"
    /\ is_comprehensive_monitoring = FALSE
    /\ NoParse
    /\ NoSummary
    /\ probed = <<>>
    /\ NoFault
    /\ hist_ok = TRUE
    /\ psutil_ok = TRUE
    /\ is_monitoring = FALSE
    /\ is_running = [m \in Monitors |-> m = focus]
    /\ thread = [m \in Monitors |-> IF m = focus THEN "alive" ELSE "none"]
    /\ cthread = "none"
    /\ last_call = <<"start", focus>>
    /\ ncalls = 1
    /\ started = {focus}
    /\ loop = [pc |-> "check", failed |-> FALSE]
    /\ \E line \in HistoryLines : hist_lines = <<line>>
    /\ hist_mtime = 1
    /\ last_checked = 0
    /\ proc_table = <<>>
    /\ known_pids = {}
    /\ process_cache = <<>>
    /\ os_env \in InitialEnvs
    /\ last_env = os_env
    /\ cycle = NoCycle

NextHistLine ==
    \/ Polled("shell_history", PollCheck("shell_history"))
    \/ Polled("shell_history", PollCycle("shell_history"))
    \/ Polled("shell_history", PollWake("shell_history"))

SpecHistLine == InitHistLine /\ [][NextHistLine]_vars


(* ----------------------------- get_context ---------------------------- *)

\* all_entries[-20:] of get_context, and lines=100 of the call of
\* get_comprehensive_context (terminal_buffer has maxlen 1000), scaled.
RecentEntries == 2
ContextLines == 1
\* output[:500] + "..." and value[:100] + "..."
OutputLimit == 500
EnvValueLimit == 100

\* One line of a rendered text, and the event it renders (0: none).
Line(event, text) == [event |-> event, text |-> text]

\* len(output) of an output of several lines.
RECURSIVE OutLen(_)
OutLen(output) ==
    IF output = <<>> THEN 0
    ELSE Len(Head(output)) + (IF Len(output) > 1 THEN 1 ELSE 0)
             + OutLen(Tail(output))

\* output[:500] + "..." if len(output) > 500 else output; the characters
\* kept of a longer output are not told apart.
Truncate(output) ==
    IF OutLen(output) > OutputLimit THEN <<"[:500]...">> ELSE output

\* all_entries.sort(key=lambda x: x[1]["timestamp"]): stable.
RECURSIVE InsertEntry(_, _)
InsertEntry(s, e) ==
    IF s = <<>> THEN <<e>>
    ELSE IF FromIsoFormat(s[Len(s)][2].timestamp)
                <= FromIsoFormat(e[2].timestamp)
         THEN Append(s, e)
    ELSE Append(InsertEntry(SubSeq(s, 1, Len(s) - 1), e), s[Len(s)])

RECURSIVE SortEntries(_)
SortEntries(s) ==
    IF s = <<>> THEN <<>>
    ELSE InsertEntry(SortEntries(SubSeq(s, 1, Len(s) - 1)), s[Len(s)])

\* for entry_type, entry in all_entries[-20:]: "$ command", or the output.
RECURSIVE RenderEntries(_)
RenderEntries(entries) ==
    IF entries = <<>> THEN <<>>
    ELSE LET entry == Head(entries)[2]
         IN  (IF Head(entries)[1] = "command"
              THEN <<Line(entry.id, "$ " \o entry.command)>>
              ELSE [k \in 1..Len(Truncate(entry.output)) |->
                        Line(entry.id, Truncate(entry.output)[k])])
                 \o RenderEntries(Tail(entries))

\* if existing_content: the block get_context puts first.
Preamble(existing_content) ==
    IF existing_content # ""
    THEN <<Line(0, "=== EXISTING TERMINAL CONTENT ==="),
           Line(0, existing_content), Line(0, "")>>
    ELSE <<>>

\* get_context, include_recent_only: the commands and outputs not older
\* than cutoff_time = now - minutes, sorted, the last of them rendered.
RecentContext(minutes, now, existing_content) ==
    LET cutoff_time == now - minutes
        recent_commands == NotOlderThan(command_history, cutoff_time)
        recent_outputs == NotOlderThan(output_history, cutoff_time)
        all_entries ==
            SortEntries(
                [k \in 1..Len(recent_commands) |->
                     <<"command", recent_commands[k]>>]
                    \o [k \in 1..Len(recent_outputs) |->
                            <<"output", recent_outputs[k]>>])
    IN  Preamble(existing_content)
            \o <<Line(0, "Current directory: " \o current_directory),
                 Line(0, "Recent activity (last " \o ToString(minutes)
                             \o " minutes):")>>
            \o RenderEntries(LastN(all_entries, RecentEntries))

\* get_context, the other branch: the context buffer, whose last "\n" ends
\* the text with an empty line.
FullContext(existing_content) ==
    Preamble(existing_content)
        \o <<Line(0, "Current directory: " \o current_directory)>>
        \o [k \in 1..Len(context_buffer) |->
                Line(context_buffer[k].id[1], context_buffer[k].text)]
        \o <<Line(0, "")>>

\* for var in important_vars: the variables of the host that are set.
RECURSIVE EnvLines(_)
EnvLines(keys) ==
    IF keys = <<>> THEN <<>>
    ELSE (IF Head(keys) \in DOMAIN os_env
          THEN <<Line(0, Head(keys) \o "="
                             \o (IF Len(os_env[Head(keys)]) > EnvValueLimit
                                 THEN "[:100]..."
                                 ELSE os_env[Head(keys)]))>>
          ELSE <<>>)
             \o EnvLines(Tail(keys))

\* ComprehensiveTerminalMonitor.get_comprehensive_context(lines); the
\* values of the host in the first block are not told apart.
GetComprehensiveContext(lines) ==
    <<Line(0, "=== SYSTEM CONTEXT ==="), Line(0, "User: "),
      Line(0, "Shell: "), Line(0, "PWD: "), Line(0, "Terminal: "),
      Line(0, "Session PID: "), Line(0, ""),
      Line(0, "=== TERMINAL ACTIVITY ===")>>
        \o [k \in 1..Len(LastN(terminal_buffer, lines)) |->
                Line(LastN(terminal_buffer, lines)[k].id,
                     LastN(terminal_buffer, lines)[k].text)]
        \o <<Line(0, ""), Line(0, "=== SESSION STATISTICS ==="),
             Line(0, "Commands executed: "
                         \o ToString(Len(cm_session_data.commands))),
             Line(0, "Processes monitored: "
                         \o ToString(Len(cm_session_data.processes))),
             Line(0, "Files accessed: "
                         \o ToString(Len(cm_session_data.files_accessed))),
             Line(0, ""), Line(0, "=== ENVIRONMENT ===")>>
        \o EnvLines(EnvKeys)

\* get_context(include_recent_only, minutes) called at the time now:
\* existing_content is what _get_existing_terminal_content finds, failed
\* whether get_comprehensive_context raised (os.getcwd() in a directory
\* that was removed), which get_context catches.
GetContext(include_recent_only, minutes, now, existing_content, failed) ==
    IF is_comprehensive_monitoring /\ ~failed
    THEN GetComprehensiveContext(ContextLines)
    ELSE IF include_recent_only
    THEN RecentContext(minutes, now, existing_content)
    ELSE FullContext(existing_content)

\* The arguments and the time of a call of get_context: after every
\* timestamp of Times.
Minutes == {0, 1}
CallTimes == {1, 2}

(* ------------------------ parse_file_references ----------------------- *)

\* The messages parsed: at most MaxMessage pieces, each a character or a
\* reference of two characters.
MaxMessage == 3
MessagePieces ==
    {<<"@", "a">>, <<"@", "/">>, <<"@">>, <<"a">>, <<"/">>, <<" ">>}
Messages == SeqsUpTo(MessagePieces, MaxMessage)

\* [^\s@]
NameChar(c) == c \notin Whitespace /\ c # "@"

\* The longest run of [^\s@] s begins with.
RECURSIVE TakeName(_)
TakeName(s) ==
    IF s = <<>> \/ ~NameChar(Head(s)) THEN <<>>
    ELSE <<Head(s)>> \o TakeName(Tail(s))

\* re.findall(r'@([^\s@]+(?:\.[^\s@]*)?|/[^\s@]*)', message): the group of
\* every match, left to right, matches not overlapping.  Both alternatives
\* need a [^\s@] after the '@', and the first takes the whole run.
RECURSIVE FindAll(_)
FindAll(s) ==
    IF s = <<>> THEN <<>>
    ELSE IF Head(s) = "@" /\ TakeName(Tail(s)) # <<>>
         THEN <<TakeName(Tail(s))>>
                  \o FindAll(SubSeq(s, 2 + Len(TakeName(Tail(s))), Len(s)))
    ELSE FindAll(Tail(s))

\* if not filepath.startswith('/'): os.path.join(self.current_directory,
\* filepath), for a current_directory that does not end with '/'.
FilePathAsWritten(match) == match
FilePath(match) ==
    IF StartsWith(match, <<"/">>) THEN match
    ELSE <<current_directory, "/">> \o match

\* What the file system does with one path: os.path.isfile and open/read,
\* os.path.isdir and os.listdir, or neither.
FsOutcomes ==
    {"file", "open_denied", "read_error", "dir", "listdir_denied",
     "listdir_error", "missing"}
ExceptionOf(outcome) ==
    CASE outcome = "open_denied" -> "PermissionError"
      [] outcome = "read_error" -> "OSError"
      [] outcome = "listdir_denied" -> "PermissionError"
      [] outcome = "listdir_error" -> "FileNotFoundError"
      [] OTHER -> "none"

\* except PermissionError (around os.listdir), except Exception (around
\* the whole body of the loop): the exceptions each catches.
ListdirCatches(exc) == exc = "PermissionError"
LoopCatchesPermission(exc) == exc = "PermissionError"
LoopCatches(exc) ==
    exc \in {"PermissionError", "OSError", "FileNotFoundError"}

\* One iteration of "for match in matches": the value it puts into
\* file_contents, or the exception that leaves the loop.
EntryOf(match, outcome) ==
    LET exc == ExceptionOf(outcome)
        str_e == <<exc, ": ">> \o FilePath(match)
        in_listdir == outcome \in {"listdir_denied", "listdir_error"}
    IN  IF outcome = "file"
        THEN [raised |-> FALSE, value |-> <<"data">>]
        ELSE IF outcome = "dir"
        THEN [raised |-> FALSE,
              value |-> <<"Directory contents:\n", "x", "\n", "y">>]
        ELSE IF outcome = "missing"
        THEN [raised |-> FALSE,
              value |-> <<"File not found: ">> \o FilePath(match)]
        ELSE IF in_listdir /\ ListdirCatches(exc)
        THEN [raised |-> FALSE,
              value |-> <<"Permission denied: ">> \o FilePath(match)]
        ELSE IF LoopCatches(exc)
        THEN [raised |-> FALSE, value |-> <<"Error reading file: ">> \o str_e]
        ELSE [raised |-> TRUE, value |-> <<>>]

\* A dict keeps its keys in the order they were first inserted: the keys of
\* d in that order, whether key is one of them, and d[key].
DictKeys(d) == [k \in 1..Len(d) |-> d[k].key]
DictHas(d, key) == \E k \in 1..Len(d) : d[k].key = key
DictGet(d, key) == d[CHOOSE k \in 1..Len(d) : d[k].key = key].value

\* d[key] = value: a key d already holds keeps its place and takes the
\* new value, a new key goes to the end.
DictSetMoveToEnd(d, key, value) ==
    SelectSeq(d, LAMBDA e : e.key # key)
        \o <<[key |-> key, value |-> value]>>
DictSet(d, key, value) ==
    IF DictHas(d, key)
    THEN [k \in 1..Len(d) |->
              IF d[k].key = key THEN [key |-> key, value |-> value]
              ELSE d[k]]
    ELSE Append(d, [key |-> key, value |-> value])

\* The loop over matches, from the dict acc.
RECURSIVE ParseLoop(_, _, _)
ParseLoop(matches, outcomes, acc) ==
    IF matches = <<>> THEN [raised |-> FALSE, file_contents |-> acc]
    ELSE LET entry == EntryOf(Head(matches), Head(outcomes))
         IN  IF entry.raised THEN [raised |-> TRUE, file_contents |-> acc]
             ELSE ParseLoop(Tail(matches), Tail(outcomes),
                            DictSet(acc, Head(matches), entry.value))

\* parse_file_references(message), the file system answering each path
\* with one of FsOutcomes.
ParseFileReferences ==
    /\ parse_pc = "idle"
    /\ \E outcomes \in [1..Len(FindAll(message)) -> FsOutcomes] :
           \E r \in {ParseLoop(FindAll(message), outcomes, <<>>)} :
               /\ fs_outcomes' = outcomes
               /\ file_contents' = r.file_contents
               /\ parse_pc' = IF r.raised THEN "raised" ELSE "returned"
    /\ UNCHANGED <<message, amVars, cmVars, monVars, histVars, focus, probed,
                   fault,
                   is_comprehensive_monitoring, sumVars, thVars, lifeVars,
                   pollVars>>

\* A TerminalActivityMonitor and the message of one call of
\* parse_file_references; the directory may change once before the call.
InitParse ==
    /\ InitFields
    /\ focus = "activity"
    /\ is_comprehensive_monitoring = TRUE
    /\ message \in Messages
    /\ file_contents = <<>>
    /\ fs_outcomes = <<>>
    /\ parse_pc = "idle"
    /\ NoSummary
    /\ probed = <<>>
    /\ NoFault

NextParse ==
    \/ ParseFileReferences
    \/ Activity(parse_pc = "idle" /\ nid = 0 /\ LogDirectoryChange)

SpecParse == InitParse /\ [][NextParse]_vars

(* ------------- concurrent callers of TerminalActivityMonitor ---------- *)

\* What a caller holding self.lock reads of the Timeline.
View ==
    [session_data |-> session_data, command_history |-> command_history,
     output_history |-> output_history]

\* The sessions a saved file holds (json.load builds new objects).
LoadFiles ==
    {[start_time |-> IsoFormat(0),
      commands |-> <<[id |-> 101, timestamp |-> IsoFormat(0),
                      command |-> "ls", directory |-> "/home"]>>,
      outputs |-> <<[id |-> 102, timestamp |-> IsoFormat(0), command |-> "",
                     output |-> <<"a", "b">>, directory |-> "/home"]>>,
      directory_changes |-> <<>>, file_operations |-> <<>>]}

\* The content load_session(filepath) leaves when nothing runs beside it.
PostView(file) ==
    [session_data |-> file,
     command_history |-> DequeFrom(file.commands, max_history_items),
     output_history |-> DequeFrom(file.outputs, max_history_items)]

\* The loader is between the first and the last write of load_session.
LoadInProgress == pc["loader"] # <<"idle", 0>>

\* log_command / log_output: "with self.lock:" and the entry.
LogAcquire ==
    /\ pc["logger"] = <<"idle", 0>>
    /\ lock = "free"
    /\ nid < MaxLogCalls
    /\ \/ \E command \in Commands, timestamp \in Times :
            call' = [key |-> "commands",
                     entry |-> [id |-> nid + 1,
                                timestamp |-> IsoFormat(timestamp),
                                command |-> command,
                                directory |-> current_directory],
                     text |-> <<"[" \o StrfTime(timestamp) \o "] $ "
                                \o command>>]
       \/ \E output \in Outputs, timestamp \in Times :
            call' = [key |-> "outputs",
                     entry |-> [id |-> nid + 1,
                                timestamp |-> IsoFormat(timestamp),
                                command |-> "", output |-> output,
                                directory |-> current_directory],
                     text |-> output]
    /\ lock' = "logger"
    /\ nid' = nid + 1
    /\ pc' = [pc EXCEPT !["logger"] = <<"append_history", 0>>]
    /\ UNCHANGED <<command_history, output_history, context_buffer,
                   current_directory, session_data, cmVars, monVars, ins_cmd,
                   ins_out, ins_ctx, ins_tb, cleaned, ctx_overflowed,
                   load_file, load_pre, loads, observed, obs_in_load>>

\* self.command_history.append(command_entry) /
\* self.output_history.append(output_entry)
LogAppendHistory ==
    /\ pc["logger"] = <<"append_history", 0>>
    /\ IF call.key = "commands"
       THEN /\ command_history' =
                   DequeAppend(command_history, call.entry, max_history_items)
            /\ ins_cmd' = Append(ins_cmd, call.entry.id)
            /\ UNCHANGED <<output_history, ins_out>>
       ELSE /\ output_history' =
                   DequeAppend(output_history, call.entry, max_history_items)
            /\ ins_out' = Append(ins_out, call.entry.id)
            /\ UNCHANGED <<command_history, ins_cmd>>
    /\ pc' = [pc EXCEPT !["logger"] = <<"append_session", 0>>]
    /\ UNCHANGED <<context_buffer, current_directory, session_data, lock,
                   cmVars, monVars, nid, ins_ctx, ins_tb, cleaned,
                   ctx_overflowed, call, load_file, load_pre, loads, observed,
                   obs_in_load>>

\* self.session_data["commands"].append(command_entry) /
\* self.session_data["outputs"].append(output_entry)
LogAppendSession ==
    /\ pc["logger"] = <<"append_session", 0>>
    /\ session_data' = [session_data EXCEPT ![call.key] = Append(@, call.entry)]
    /\ pc' = [pc EXCEPT !["logger"] = <<"update_context", 0>>]
    /\ UNCHANGED <<command_history, output_history, context_buffer,
                   current_directory, lock, cmVars, monVars, histVars, call,
                   load_file, load_pre, loads, observed, obs_in_load>>

\* self._update_context_buffer(...), and the lock is released.
LogUpdateContext ==
    /\ pc["logger"] = <<"update_context", 0>>
    /\ IF call.key = "commands" \/ ~IsBlank(call.text)
       THEN CtxUpdate(call.entry.id, call.text)
       ELSE UNCHANGED <<context_buffer, ins_ctx, ctx_overflowed>>
    /\ lock' = WithExit(lock)
    /\ pc' = [pc EXCEPT !["logger"] = <<"idle", 0>>]
    /\ UNCHANGED <<command_history, output_history, current_directory,
                   session_data, cmVars, monVars, nid, ins_cmd, ins_out,
                   ins_tb, cleaned, call, load_file, load_pre, loads,
                   observed, obs_in_load>>

\* load_session: self.session_data = json.load(f)
LoadAssign ==
    /\ pc["loader"] = <<"idle", 0>>
    /\ loads < MaxLoads
    /\ \E file \in LoadFiles :
        /\ load_file' = file
        /\ session_data' = file
    /\ load_pre' = View
    /\ loads' = loads + 1
    /\ pc' = [pc EXCEPT !["loader"] = <<"clear_commands", 0>>]
    /\ UNCHANGED <<command_history, output_history, context_buffer,
                   current_directory, lock, cmVars, monVars, histVars, call,
                   observed, obs_in_load>>

\* self.command_history.clear()
LoadClearCommands ==
    /\ pc["loader"] = <<"clear_commands", 0>>
    /\ command_history' = <<>>
    /\ pc' = [pc EXCEPT !["loader"] = <<"clear_outputs", 0>>]
    /\ UNCHANGED <<output_history, context_buffer, current_directory,
                   session_data, lock, cmVars, monVars, histVars, call,
                   load_file, load_pre, loads, observed, obs_in_load>>

\* self.output_history.clear()
LoadClearOutputs ==
    /\ pc["loader"] = <<"clear_outputs", 0>>
    /\ output_history' = <<>>
    /\ pc' = [pc EXCEPT !["loader"] = <<"commands", 1>>]
    /\ UNCHANGED <<command_history, context_buffer, current_directory,
                   session_data, lock, cmVars, monVars, histVars, call,
                   load_file, load_pre, loads, observed, obs_in_load>>

\* for cmd in self.session_data.get("commands", []):
\*     self.command_history.append(cmd)
\* one iteration over the list, which a log_command may be appending to.
LoadAppendCommand ==
    /\ pc["loader"][1] = "commands"
    /\ LET k == pc["loader"][2]
       IN  IF k <= Len(session_data.commands)
           THEN /\ command_history' =
                       DequeAppend(command_history, session_data.commands[k],
                                   max_history_items)
                /\ pc' = [pc EXCEPT !["loader"] = <<"commands", k + 1>>]
           ELSE /\ command_history' = command_history
                /\ pc' = [pc EXCEPT !["loader"] = <<"outputs", 1>>]
    /\ UNCHANGED <<output_history, context_buffer, current_directory,
                   session_data, lock, cmVars, monVars, histVars, call,
                   load_file, load_pre, loads, observed, obs_in_load>>

\* for out in self.session_data.get("outputs", []):
\*     self.output_history.append(out)
LoadAppendOutput ==
    /\ pc["loader"][1] = "outputs"
    /\ LET k == pc["loader"][2]
       IN  IF k <= Len(session_data.outputs)
           THEN /\ output_history' =
                       DequeAppend(output_history, session_data.outputs[k],
                                   max_history_items)
                /\ pc' = [pc EXCEPT !["loader"] = <<"outputs", k + 1>>]
           ELSE /\ output_history' = output_history
                /\ pc' = [pc EXCEPT !["loader"] = <<"idle", 0>>]
    /\ UNCHANGED <<command_history, context_buffer, current_directory,
                   session_data, lock, cmVars, monVars, histVars, call,
                   load_file, load_pre, loads, observed, obs_in_load>>

\* get_session_summary / get_context: "with self.lock:"
ReadAcquire ==
    /\ pc["reader"] = <<"idle", 0>>
    /\ lock = "free"
    /\ lock' = "reader"
    /\ pc' = [pc EXCEPT !["reader"] = <<"read", 0>>]
    /\ UNCHANGED <<command_history, output_history, context_buffer,
                   current_directory, session_data, cmVars, monVars, histVars,
                   call, load_file, load_pre, loads, observed, obs_in_load>>

\* The reader reads the histories and session_data, and releases the lock.
ReadRelease ==
    /\ pc["reader"] = <<"read", 0>>
    /\ observed' = View
    /\ obs_in_load' = LoadInProgress
    /\ lock' = WithExit(lock)
    /\ pc' = [pc EXCEPT !["reader"] = <<"idle", 0>>]
    /\ UNCHANGED <<command_history, output_history, context_buffer,
                   current_directory, session_data, cmVars, monVars, histVars,
                   call, load_file, load_pre, loads>>

InitConc ==
    /\ InitFields
    /\ focus = "activity"
    /\ is_comprehensive_monitoring = TRUE
    /\ NoParse
    /\ NoSummary
    /\ probed = <<>>
    /\ NoFault

Concurrent(A) == A /\ UNCHANGED <<modeVars, lifeVars, pollVars>>

NextConc ==
    \/ Concurrent(LogAcquire)
    \/ Concurrent(LogAppendHistory)
    \/ Concurrent(LogAppendSession)
    \/ Concurrent(LogUpdateContext)
    \/ Concurrent(LoadAssign)
    \/ Concurrent(LoadClearCommands)
    \/ Concurrent(LoadClearOutputs)
    \/ Concurrent(LoadAppendCommand)
    \/ Concurrent(LoadAppendOutput)
    \/ Concurrent(ReadAcquire)
    \/ Concurrent(ReadRelease)

SpecConc == InitConc /\ [][NextConc]_vars



(* ------------- the session: its summary, its file --------------------- *)

\* [:10] of the most used commands, [-10:] of the file operations.
MostUsedLimit == 10
RecentFilesWindow == 10

\* The commands and the file operations logged in a session that is
\* summarised and saved, and the characters of each command.
SessionCommands == {"git status", "git pull", "ls", " "}
SessionFileOps == {<<"edit", "a.txt">>, <<"edit", "b.txt">>}
Chars(command) ==
    CASE command = "git status" ->
             <<"g", "i", "t", " ", "s", "t", "a", "t", "u", "s">>
      [] command = "git pull" -> <<"g", "i", "t", " ", "p", "u", "l", "l">>
      [] command = "ls" -> <<"l", "s">>
      [] command = " " -> <<" ">>
      [] OTHER -> <<>>

\* The longest run of characters that are not whitespace s begins with.
RECURSIVE TakeWord(_)
TakeWord(s) ==
    IF s = <<>> \/ Head(s) \in Whitespace THEN <<>>
    ELSE <<Head(s)>> \o TakeWord(Tail(s))

\* str.split(): the words between runs of whitespace.
RECURSIVE Split(_)
Split(s) ==
    IF LStrip(s) = <<>> THEN <<>>
    ELSE <<TakeWord(LStrip(s))>>
             \o Split(SubSeq(LStrip(s), Len(TakeWord(LStrip(s))) + 1,
                             Len(LStrip(s))))

\* for cmd_entry in self.command_history:
\*     cmd = cmd_entry["command"].split()[0] if cmd_entry["command"] else ""
\*     command_counts[cmd] = command_counts.get(cmd, 0) + 1
\* [][0] raises IndexError.
RECURSIVE CountCommands(_, _)
CountCommands(history, command_counts) ==
    IF history = <<>> THEN [raised |-> FALSE, counts |-> command_counts]
    ELSE LET command == Head(history).command
             words == Split(Chars(command))
             cmd == IF command # "" THEN words[1] ELSE <<>>
         IN  IF command # "" /\ words = <<>>
             THEN [raised |-> TRUE, counts |-> command_counts]
             ELSE CountCommands(
                      Tail(history),
                      DictSet(command_counts, cmd,
                              IF DictHas(command_counts, cmd)
                              THEN DictGet(command_counts, cmd) + 1
                              ELSE 1))

\* sorted(items, key=lambda x: x[1], reverse=True): a stable sort, so items
\* of equal count keep the order they have in the dict.
RECURSIVE InsertByCount(_, _)
InsertByCount(s, e) ==
    IF s = <<>> THEN <<e>>
    ELSE IF s[Len(s)].value >= e.value
         THEN Append(s, e)
    ELSE Append(InsertByCount(SubSeq(s, 1, Len(s) - 1), e), s[Len(s)])
RECURSIVE SortByCount(_)
SortByCount(items) ==
    IF items = <<>> THEN <<>>
    ELSE InsertByCount(SortByCount(SubSeq(items, 1, Len(items) - 1)),
                       items[Len(items)])

FirstN(s, n) == IF Len(s) <= n THEN s ELSE SubSeq(s, 1, n)

\* _get_most_used_commands()
GetMostUsedCommands ==
    LET r == CountCommands(command_history, <<>>)
    IN  [raised |-> r.raised,
         value |-> FirstN(SortByCount(r.counts), MostUsedLimit)]

\* _get_recent_files(): the paths of the last 10 file operations, each at
\* the place of its first operation among them.
RECURSIVE RecentFilesOf(_, _)
RecentFilesOf(ops, recent_files) ==
    IF ops = <<>> THEN recent_files
    ELSE RecentFilesOf(Tail(ops),
                       IF \E k \in 1..Len(recent_files) :
                              recent_files[k] = Head(ops).filepath
                       THEN recent_files
                       ELSE Append(recent_files, Head(ops).filepath))
GetRecentFiles ==
    RecentFilesOf(LastN(session_data.file_operations, RecentFilesWindow), <<>>)

\* get_session_summary(): duration is datetime.now() - self.session_start.
GetSessionSummary ==
    /\ lock = "free"
    /\ summary' =
           IF GetMostUsedCommands.raised THEN [pc |-> "raised"]
           ELSE [pc |-> "returned",
                 session_start |-> session_start,
                 total_commands |-> Len(command_history),
                 total_outputs |-> Len(output_history),
                 current_directory |-> current_directory,
                 directory_changes |-> Len(session_data.directory_changes),
                 file_operations |-> Len(session_data.file_operations),
                 most_used_commands |-> GetMostUsedCommands.value,
                 recent_files |-> GetRecentFiles]
    /\ session_op' = "summary"
    /\ UNCHANGED <<amVars, cmVars, monVars, histVars, session_start, saved,
                   after_load, focus, probed,
                   fault, is_comprehensive_monitoring,
                   parseVars, thVars, lifeVars, pollVars>>

\* json.dump(self.session_data, f, indent=2, default=str) and json.load(f):
\* the entries are dicts of strings, which the file holds as they are.
JsonDump(data) == <<"json", data>>
JsonLoad(text) == text[2]

\* save_session(filepath): "with self.lock:" ...
SaveAcquire ==
    /\ lock = "free"
    /\ session_op # "save_open"
    /\ lock' = "saver"
    /\ session_op' = "save_open"
    /\ UNCHANGED <<command_history, output_history, context_buffer,
                   current_directory, session_data, cmVars, monVars, histVars,
                   session_start, summary, saved, after_load, focus, probed,
                   fault,
                   is_comprehensive_monitoring, parseVars, thVars, lifeVars,
                   pollVars>>

\* ... open(filepath, 'w') and json.dump, an error of which is logged; the
\* lock is released when the block is left.
SaveWrite ==
    /\ lock = "saver"
    /\ \E io_error \in BOOLEAN :
           saved' = IF io_error THEN saved
                    ELSE [text |-> JsonDump(session_data),
                          command_history |-> command_history,
                          output_history |-> output_history]
    /\ lock' = WithExit(lock)
    /\ session_op' = "save"
    /\ after_load' = FALSE
    /\ UNCHANGED <<command_history, output_history, context_buffer,
                   current_directory, session_data, cmVars, monVars, histVars,
                   session_start, summary, focus, probed, fault,
                   is_comprehensive_monitoring, parseVars, thVars, lifeVars,
                   pollVars>>

\* load_session(filepath), nothing running beside it: an error of open or
\* json.load is logged and leaves the session as it is.
LoadSession ==
    /\ session_op # "save_open"
    /\ \E io_error \in BOOLEAN :
           IF io_error \/ saved = <<>>
           THEN UNCHANGED <<session_data, command_history, output_history,
                            after_load>>
           ELSE /\ session_data' = JsonLoad(saved.text)
                /\ command_history' =
                       PostView(JsonLoad(saved.text)).command_history
                /\ output_history' =
                       PostView(JsonLoad(saved.text)).output_history
                /\ after_load' = TRUE
    /\ session_op' = "load"
    /\ UNCHANGED <<context_buffer, current_directory, lock, cmVars, monVars,
                   histVars, session_start, summary, saved, focus, probed,
                   fault,
                   is_comprehensive_monitoring, parseVars, thVars, lifeVars,
                   pollVars>>

\* The process ends and another constructs a TerminalActivityMonitor, at a
\* later time: __init__ sets session_start and an empty session.
NewSession ==
    /\ lock = "free"
    /\ saved # <<>>
    /\ session_start + 1 \in Times
    /\ session_start' = session_start + 1
    /\ command_history' = <<>>
    /\ output_history' = <<>>
    /\ context_buffer' = <<>>
    /\ current_directory' = "/home"
    /\ session_data' = [start_time |-> IsoFormat(session_start + 1),
                        commands |-> <<>>, outputs |-> <<>>,
                        directory_changes |-> <<>>, file_operations |-> <<>>]
    /\ summary' = [pc |-> "idle"]
    /\ session_op' = "init"
    /\ after_load' = FALSE
    /\ UNCHANGED <<lock, cmVars, monVars, histVars, saved, focus, probed,
                   fault,
                   is_comprehensive_monitoring, parseVars, thVars, lifeVars,
                   pollVars>>

\* A TerminalActivityMonitor without the comprehensive monitor.
InitSession ==
    /\ InitFields
    /\ focus = "activity"
    /\ is_comprehensive_monitoring = FALSE
    /\ message = <<>>
    /\ file_contents = <<>>
    /\ fs_outcomes = <<>>
    /\ parse_pc = "idle"
    /\ session_start = 0
    /\ summary = [pc |-> "idle"]
    /\ saved = <<>>
    /\ session_op = "init"
    /\ after_load = FALSE
    /\ probed = <<>>
    /\ NoFault

\* A log_* call, at the time the session began; the summary returned
\* before it is of no more use.
Logged(A) ==
    /\ A
    /\ summary' = [pc |-> "idle"]
    /\ session_op' = "log"
    /\ after_load' = FALSE
    /\ UNCHANGED <<session_start, saved, focus, probed, fault,
                   is_comprehensive_monitoring, parseVars, thVars, lifeVars,
                   pollVars>>

NextSession ==
    \/ Logged(LogCommandFrom(SessionCommands, {session_start}))
    \/ Logged(LogFileOperationFrom(SessionFileOps, {session_start}))
    \/ GetSessionSummary
    \/ SaveAcquire
    \/ SaveWrite
    \/ LoadSession
    \/ NewSession

SpecSession == InitSession /\ [][NextSession]_vars

\* A session of log_* calls of all four kinds and of summaries, without a
\* load and without a cleanup.
NextTotals ==
    \/ Logged(LogCommandFrom(Commands, {session_start}))
    \/ Logged(LogOutputFrom(Outputs, {session_start}))
    \/ Logged(LogDirectoryChange)
    \/ Logged(LogFileOperationFrom(FileOps, {session_start}))
    \/ GetSessionSummary

SpecTotals == InitSession /\ [][NextTotals]_vars


\* Files that save_session has not written, by what load_session meets:
\* open raises, json.load raises, or json.load returns a list.
ForeignFiles == {"unreadable", "invalid json", "json list"}

\* load_session(filepath) of such a file.  The except logs the error of
\* open or json.load before anything is assigned; a list is assigned to
\* session_data, the two histories are cleared, and session_data.get
\* raises AttributeError, which is logged.
LoadForeign ==
    /\ \E file \in ForeignFiles :
           IF file = "json list"
           THEN /\ session_data' = <<>>
                /\ command_history' = <<>>
                /\ output_history' = <<>>
           ELSE UNCHANGED <<session_data, command_history, output_history>>
    /\ session_op' = "load_failed"
    /\ UNCHANGED <<context_buffer, current_directory, lock, cmVars, monVars,
                   histVars, session_start, summary, saved, after_load, focus,
                   probed, fault, is_comprehensive_monitoring, parseVars,
                   thVars, lifeVars, pollVars>>

\* A session of log_* calls and of loads that fail.  What is called on the
\* session after a load has left a list in session_data is not followed.
Intact(A) == session_data # <<>> /\ Logged(A)

NextLoad ==
    \/ Intact(LogCommandFrom(Commands, {session_start}))
    \/ Intact(LogOutputFrom(Outputs, {session_start}))
    \/ Intact(LogDirectoryChange)
    \/ LoadForeign

SpecLoad == InitSession /\ [][NextLoad]_vars


(* --------------------------- the two locks ---------------------------- *)

\* The threads that take a lock, each statement a step: the callers of
\* log_* (the history thread of the basic monitoring is one), of
\* get_session_summary / get_context and of save_session on a
\* TerminalActivityMonitor, or the poll loops and the coordination loop of
\* its ComprehensiveTerminalMonitor.  load_session takes no lock.
InitLocks ==
    /\ InitFields
    /\ focus \in {"activity", "comprehensive"}
    /\ is_comprehensive_monitoring = TRUE
    /\ NoParse
    /\ NoSummary
    /\ probed = <<>>
    /\ NoFault

Caller(A) == focus = "activity" /\ Concurrent(A)
LogBody == LogAppendHistory \/ LogAppendSession \/ LogUpdateContext
DrainBody == DrainCopy \/ DrainClear

NextLocks ==
    \/ Caller(LogAcquire)
    \/ Caller(LogBody)
    \/ Caller(ReadAcquire)
    \/ Caller(ReadRelease)
    \/ focus = "activity" /\ SaveAcquire
    \/ focus = "activity" /\ SaveWrite
    \/ \E m \in Monitors : Comprehensive(PollEmit(m))
    \/ Comprehensive(CoordAcquire)
    \/ Comprehensive(DrainBody)

SpecLocks == InitLocks /\ [][NextLocks]_vars

\* A thread that holds a lock runs: the statements of the block are
\* executed, the write of the session file ends.
FairLocks ==
    /\ SpecLocks
    /\ WF_vars(Caller(LogBody))
    /\ WF_vars(Caller(ReadRelease))
    /\ WF_vars(focus = "activity" /\ SaveWrite)
    /\ WF_vars(Comprehensive(DrainBody))


(* ------------------------------ claims -------------------------------- *)

\* s is a contiguous suffix of t.
IsSuffix(s, t) ==
    /\ Len(s) <= Len(t)
    /\ s = SubSeq(t, Len(t) - Len(s) + 1, Len(t))

\* s is a subsequence of t: the elements of s, in their order, occur in t.
RECURSIVE IsSubseq(_, _)
IsSubseq(s, t) ==
    IF s = <<>> THEN TRUE
    ELSE IF t = <<>> THEN FALSE
    ELSE IF Head(s) = Head(t) THEN IsSubseq(Tail(s), Tail(t))
    ELSE IsSubseq(s, Tail(t))

\* C1: after any sequence of log_command / log_output calls and merge
\* cycles, no bounded store holds more entries than its count bound:
\* command_history and output_history at most max_history_items,
\* terminal_buffer at most its maxlen.
C1_CountBounds ==
    /\ Len(command_history) <= max_history_items
    /\ Len(output_history) <= max_history_items
    /\ Len(terminal_buffer) <= TerminalBufferMaxlen

\* More entries were inserted into a store than it holds, and it is full.
C1_Witness ==
    \/ /\ Len(ins_cmd) > max_history_items
       /\ Len(command_history) = max_history_items
    \/ /\ Len(ins_tb) > TerminalBufferMaxlen
       /\ Len(terminal_buffer) = TerminalBufferMaxlen

\* C2: after every _update_context_buffer append the context buffer is at
\* most max_context_size long, and when the append pushed it above
\* max_context_size it is at most 80% of max_context_size long.
C2_ContextBound ==
    /\ BufLen(context_buffer) <= max_context_size
    /\ ctx_overflowed =>
           10 * BufLen(context_buffer) <= max_context_size * 8

\* The last append overflowed the buffer and lines are left after the trim.
C2_Witness ==
    /\ ctx_overflowed
    /\ context_buffer # <<>>
    /\ Len(context_buffer) < Len(ins_ctx)

\* C3 as claimed: the retained entries of command_history, output_history,
\* terminal_buffer and the lines of context_buffer are each a contiguous
\* suffix of the sequence of all entries ever inserted.
C3_ContiguousSuffix ==
    /\ IsSuffix(Ids(command_history), ins_cmd)
    /\ IsSuffix(Ids(output_history), ins_out)
    /\ IsSuffix(Ids(terminal_buffer), ins_tb)
    /\ IsSuffix(LineIds(context_buffer), ins_ctx)

\* C3 as amended: the retained entries are never reordered (a subsequence
\* of the inserted ones, in insertion order); terminal_buffer and the lines
\* of context_buffer are a contiguous suffix, and so are command_history
\* and output_history until cleanup_old_data, which removes by timestamp,
\* has removed an entry.
C3_OrderKept ==
    /\ IsSubseq(Ids(command_history), ins_cmd)
    /\ IsSubseq(Ids(output_history), ins_out)
    /\ IsSuffix(Ids(terminal_buffer), ins_tb)
    /\ IsSuffix(LineIds(context_buffer), ins_ctx)
    /\ ~cleaned =>
           /\ IsSuffix(Ids(command_history), ins_cmd)
           /\ IsSuffix(Ids(output_history), ins_out)

\* cleanup_old_data has removed an entry inserted after one it kept.
C3_Witness ==
    /\ cleaned
    /\ command_history # <<>>
    /\ ~IsSuffix(Ids(command_history), ins_cmd)

\* The fields of the Timeline of either monitor.
Timeline == <<command_history, output_history, context_buffer, session_data>>
CmTimeline == <<terminal_buffer, cm_session_data>>

\* C4 as claimed: every mutation of the Timeline is performed by a thread
\* that holds the monitor's lock.
C4_MutationUnderLock ==
    [][/\ Timeline' # Timeline =>
              \E t \in Threads : lock = t /\ pc'[t] # pc[t]
       /\ CmTimeline' # CmTimeline => cm_lock = "coord"]_vars

\* C5 as claimed: what a reader sees between the start and the end of a
\* load_session is the complete content before the load or the complete
\* content the load installs.
C5_LoadAtomic ==
    obs_in_load => observed \in {load_pre, PostView(load_file)}


\* The live poll threads of monitor m.
LiveThreads(m) == (IF thread[m] = "alive" THEN 1 ELSE 0) + orphans[m]

\* C6 (the claim as stated; the code violates it): after start() called
\* twice in a row on a source monitor, the monitor has at most one
\* background polling thread, as after one call.
C6_StartIdempotent ==
    \A m \in Monitors :
        last_call = <<"start", m>> /\ prev_call = <<"start", m>> =>
            LiveThreads(m) <= 1

\* C7: a start_monitoring() while monitoring is active starts no monitor
\* thread and no coordination thread and appends no existing-content entry
\* (it returns at once); during a stop_monitoring() that follows a
\* stop_monitoring(), is_monitoring and every is_running stay as the first
\* left them.
C7_CoordinatorIdempotent ==
    [][/\ (/\ last_call' = <<"start_monitoring", "">>
           /\ ncalls' = ncalls + 1
           /\ is_monitoring) =>
              UNCHANGED <<is_monitoring, is_running, thread, orphans, cthread,
                          corphans, coord, terminal_buffer, ins_tb, client>>
       /\ (/\ last_call = <<"stop_monitoring", "">>
           /\ \/ last_call' = <<"stop_monitoring", "">> /\ ncalls' = ncalls + 1
              \/ prev_call = <<"stop_monitoring", "">> /\ client # Idle) =>
              UNCHANGED <<is_monitoring, is_running, terminal_buffer,
                          cm_session_data>>]_vars

\* start_monitoring() was called a second time while monitoring was active,
\* after the first had captured the existing content.
C7_Witness ==
    /\ last_call = <<"start_monitoring", "">>
    /\ prev_call = <<"start_monitoring", "">>
    /\ client = Idle
    /\ is_monitoring
    /\ cthread = "alive"
    /\ Len(ins_tb) = 1

\* C8: a stop() or stop_monitoring() in progress returns to its caller,
\* whatever the poll threads and the coordination thread do (only the
\* caller's own thread is assumed to run).
C8_StopReturns == (client.op \in {"stop", "join"}) ~> (client = Idle)

\* stop_monitoring() or stop() has returned while a poll thread it told to
\* stop is still alive: the join ended by its timeout.
C8_Witness ==
    /\ client = Idle
    /\ last_call[1] \in {"stop_monitoring", "stop"}
    /\ \E m \in Monitors : thread[m] = "alive" /\ ~is_running[m]

\* C9: as long as nothing of an object was started, no call has raised, stop
\* never waits in a join, and terminal_buffer, session_data and every
\* monitor's buffer are as constructed.
C9_StopNeverStarted ==
    Importable /\ started = {} =>
        /\ ~raised
        /\ client.op \in {"idle", "stop"}
        /\ terminal_buffer = <<>>
        /\ \A k \in DOMAIN cm_session_data : cm_session_data[k] = <<>>
        /\ \A m \in Monitors : buf[m] = <<>> /\ thread[m] = "none"

\* stop_monitoring() or stop() has returned on an object never started.
C9_Witness ==
    /\ started = {}
    /\ client = Idle
    /\ last_call[1] \in {"stop_monitoring", "stop"}
    /\ prev_call[1] \in {"stop_monitoring", "stop"}

\* C10 (the claim as stated; the code violates it): the list a drain
\* returns holds every event buffered since the buffer was last cleared.
C10_DrainReturnsAll ==
    coord.pc = "clear" => Ids(coord.data) = coord.since

\* C10 (amended): a monitor's buffer holds, in arrival order, the latest
\* maxlen events buffered since it was last cleared, and that is what a
\* drain returns; nothing buffered since the last clear, the buffer is
\* empty.
C10_DrainReturnsLatest ==
    /\ \A m \in Monitors : Ids(buf[m]) = LastN(arrived[m], MonitorBufMaxlen)
    /\ coord.pc = "clear" =>
           Ids(coord.data) = LastN(coord.since, MonitorBufMaxlen)

\* A drain has copied a buffer that more than maxlen events were appended
\* to since its last clear.
C10_Witness ==
    /\ coord.pc = "clear"
    /\ Len(coord.since) > MonitorBufMaxlen


\* The ids of the events a merge has put into the Timeline: appended to
\* terminal_buffer or to a list of session_data.
MergedIds ==
    {ins_tb[k] : k \in 1..Len(ins_tb)}
        \cup UNION {{cm_session_data[key][k].id :
                         k \in 1..Len(cm_session_data[key])} :
                    key \in DOMAIN cm_session_data}

\* C11 (the claim as stated; the code violates it): when the coordination
\* loop has processed the list a drain returned, every event of that list
\* is in the Timeline.
C11_MergeAppendsAll ==
    [][coord.pc = "clear" /\ coord'.pc # "clear" =>
           \A k \in 1..Len(coord.data) : coord.data[k].id \in MergedIds']_vars


\* The list of session_data the events of the source of id are merged
\* into, "" when id is in none.
ListOfId(id) ==
    IF \E key \in DOMAIN cm_session_data :
           \E k \in 1..Len(cm_session_data[key]) :
               cm_session_data[key][k].id = id
    THEN CHOOSE key \in DOMAIN cm_session_data :
             \E k \in 1..Len(cm_session_data[key]) :
                 cm_session_data[key][k].id = id
    ELSE ""

\* C12: events of one source are in the Timeline in the order they were
\* buffered in (ids count the events as they are buffered): in each list of
\* session_data, and among the entries of terminal_buffer that come from
\* one source, whatever their timestamps.
C12_PerSourceOrder ==
    /\ \A key \in DOMAIN cm_session_data :
           \A i, j \in 1..Len(cm_session_data[key]) :
               i < j => cm_session_data[key][i].id < cm_session_data[key][j].id
    /\ \A i, j \in 1..Len(terminal_buffer) :
           /\ i < j
           /\ ListOfId(terminal_buffer[i].id) # ""
           /\ ListOfId(terminal_buffer[i].id) = ListOfId(terminal_buffer[j].id)
           => terminal_buffer[i].id < terminal_buffer[j].id

\* Two events of one source are in the Timeline, the one buffered first
\* with the later timestamp.
C12_Witness ==
    \E key \in DOMAIN cm_session_data :
        /\ Len(cm_session_data[key]) >= 2
        /\ TimeOf(cm_session_data[key][1].timestamp)
               > TimeOf(cm_session_data[key][2].timestamp)
        /\ Len(terminal_buffer) >= 2
        /\ ListOfId(terminal_buffer[1].id) = key
        /\ ListOfId(terminal_buffer[2].id) = key


\* C13: an error in one poll cycle does not end the poll thread: after a
\* cycle that failed, the loop of a monitor that stays running goes into
\* another cycle.
C13_LoopContinues ==
    (loop.failed /\ cycle.error) ~> (loop.pc = "cycle" \/ ~is_running[focus])

\* The last cycle of a running monitor failed, and its loop is in the next.
C13_Witness ==
    /\ cycle.m = focus
    /\ cycle.error
    /\ loop.pc = "cycle"
    /\ is_running[focus]
    /\ thread[focus] = "alive"


\* The events of the cycle a step ends that carry the command of `line`.
EventsFor(line, events) ==
    {k \in 1..Len(events) :
         <<events[k].command>> = CommandsOf(<<line>>, kind)}

\* C14: when the tail of the history file a poll reads has two consecutive
\* identical command lines, the poll emits exactly one Command event for
\* that command.
C14_OneEventForRepeat ==
    [][/\ focus = "shell_history"
       /\ loop.pc = "cycle"
       /\ last_checked' # last_checked
       => LET tail == LastN(hist_lines, HistoryTail)
          IN  \A i \in 1..(Len(tail) - 1) :
                  /\ tail[i] = tail[i + 1]
                  /\ CommandsOf(<<tail[i]>>, kind) # <<>>
                  => Cardinality(EventsFor(tail[i], cycle'.events)) = 1]_vars


\* The process is in the lists of _is_interesting_process of the monitor.
AllowListed(info) ==
    IF kind = "comprehensive"
    THEN ~info.cmdline_none /\ IsInterestingProcess(info)
    ELSE TerminalIsInterestingProcess(
             info.name,
             IF info.cmdline_none \/ info.cmdline = <<>> THEN info.name
             ELSE JoinSpace(info.cmdline))

\* The pids of the events of one action.
PidsOf(events, action) ==
    {events[k].pid : k \in {j \in 1..Len(events) : events[j].action = action}}

\* C15: a process poll that ends without an error, from the snapshot P it
\* kept (known_pids) and the snapshot C it takes (proc_table), emits one
\* "terminated" for each pid of P \ C, one "started" for each allow-listed
\* pid of C \ P, and nothing else.
C15_SnapshotDiff ==
    [][/\ focus = "process_watcher"
       /\ loop.pc = "cycle"
       /\ loop'.pc = "sleep"
       => /\ PidsOf(cycle'.events, "terminated")
                 = known_pids \ DOMAIN proc_table
          /\ PidsOf(cycle'.events, "started")
                 = {pid \in DOMAIN proc_table \ known_pids :
                        AllowListed(proc_table[pid])}
          /\ Len(cycle'.events)
                 = Cardinality(PidsOf(cycle'.events, "terminated"))
                       + Cardinality(PidsOf(cycle'.events, "started"))]_vars


\* C16: without psutil nothing raises to the caller, the process monitor
\* buffers no event, and start_monitoring leaves the coordination thread
\* and every other monitor that can start running.
C16_InertWithoutPsutil ==
    ~psutil_ok =>
        /\ ~raised
        /\ arrived["process_watcher"] = <<>>
        /\ buf["process_watcher"] = <<>>
        /\ last_call[1] = "start_monitoring" =>
               /\ is_monitoring
               /\ cthread = "alive"
               /\ \A m \in Owned \ {"process_watcher"} :
                      CanStart(m) => is_running[m] /\ thread[m] = "alive"


\* The keys of os.environ whose value is not the one last_env has for them.
ChangedKeys ==
    {key \in DOMAIN os_env :
         key \notin DOMAIN last_env \/ last_env[key] # os_env[key]}

\* C17: an environment poll that ends without an error emits one "changed"
\* event, with the current value, for each key of os.environ that last_env
\* lacks or has with another value, none for the other keys, and leaves
\* the environment it read as last_env.
C17_EnvDiff ==
    [][/\ focus = "environment_monitor"
       /\ loop.pc = "cycle"
       /\ loop'.pc = "sleep"
       => /\ {cycle'.events[k].variable : k \in 1..Len(cycle'.events)}
                 = ChangedKeys
          /\ Len(cycle'.events) = Cardinality(ChangedKeys)
          /\ \A k \in 1..Len(cycle'.events) :
                 /\ cycle'.events[k].value = os_env[cycle'.events[k].variable]
                 /\ cycle'.events[k].action = "changed"
          /\ last_env' = os_env]_vars

\* An environment poll has found one variable new or changed and another
\* as it was.
C17_Witness ==
    /\ focus = "environment_monitor"
    /\ cycle.m = "environment_monitor"
    /\ ~cycle.error
    /\ Len(cycle.events) = 1
    /\ loop.pc = "sleep"
    /\ last_env = os_env
    /\ Cardinality(DOMAIN os_env) = 2


\* The Command and Output events of the two Timelines, each with its time.
RECURSIVE Range(_)
Range(s) == IF s = <<>> THEN {} ELSE {Head(s)} \cup Range(Tail(s))
LoggedTimes ==
    {<<e.id, FromIsoFormat(e.timestamp)>> :
         e \in Range(session_data.commands) \cup Range(session_data.outputs)}
        \cup {<<e.id, TimeOf(e.timestamp)>> :
                  e \in Range(cm_session_data.commands)
                            \cup Range(cm_session_data.outputs)}

\* The events a text renders.
EventsIn(text) == {text[k].event : k \in 1..Len(text)} \ {0}

\* C18: the text get_context(include_recent_only=True, minutes) returns
\* renders no Command or Output event older than minutes before the call,
\* and at most the last 20 (RecentEntries) events.
C18_RecentOnly ==
    \A minutes \in Minutes, now \in CallTimes,
       existing_content \in ExistingContent, failed \in BOOLEAN :
        LET text == GetContext(TRUE, minutes, now, existing_content, failed)
        IN  /\ \A p \in LoggedTimes :
                   p[1] \in EventsIn(text) => p[2] >= now - minutes
            /\ Cardinality(EventsIn(text)) <= RecentEntries

\* C19: every line that log_command, log_output, log_directory_change or
\* log_file_operation put into the context buffer and that the size bound
\* has not evicted is in the text get_context(include_recent_only=False)
\* returns.
C19_LoggedInFullContext ==
    \A minutes \in Minutes, now \in CallTimes,
       existing_content \in ExistingContent, failed \in BOOLEAN :
        LET text == GetContext(FALSE, minutes, now, existing_content, failed)
        IN  \A k \in 1..Len(context_buffer) :
                \E j \in 1..Len(text) :
                    text[j] = Line(context_buffer[k].id[1],
                                   context_buffer[k].text)


\* The place of the last match equal to matches[k].
LastOf(matches, k) ==
    CHOOSE j \in k..Len(matches) :
        /\ matches[j] = matches[k]
        /\ \A i \in (j + 1)..Len(matches) : matches[i] # matches[k]

\* C20: parse_file_references never raises; when it has returned, every
\* token that matched has an entry in file_contents, and the entry of a
\* token whose file could not be opened or read is "Error reading file: "
\* and the message of the exception.
C20_ParseNeverRaises ==
    /\ parse_pc # "raised"
    /\ parse_pc = "returned" =>
           \A k \in 1..Len(FindAll(message)) :
               LET match == FindAll(message)[k]
                   outcome == fs_outcomes[LastOf(FindAll(message), k)]
               IN  /\ DictHas(file_contents, match)
                   /\ DictGet(file_contents, match) # <<>>
                   /\ outcome \in {"open_denied", "read_error"} =>
                          LET value == DictGet(file_contents, match)
                          IN  /\ Len(value) >= 2
                              /\ value[1] = "Error reading file: "
                              /\ value[2] = ExceptionOf(outcome)

\* The call has returned for a message of two tokens, one a file whose read
\* failed, the other a directory that could not be listed.
C20_Witness ==
    /\ parse_pc = "returned"
    /\ Len(FindAll(message)) = 2
    /\ fs_outcomes[1] = "read_error"
    /\ fs_outcomes[2] = "listdir_error"
    /\ Len(file_contents) = 2


\* The distinct elements of s, each at the place of its first appearance.
RECURSIVE FirstAppearances(_)
FirstAppearances(s) ==
    IF s = <<>> THEN <<>>
    ELSE LET init == FirstAppearances(SubSeq(s, 1, Len(s) - 1))
             last == s[Len(s)]
         IN  IF \E k \in 1..Len(init) : init[k] = last THEN init
             ELSE Append(init, last)

\* The path a token stands for: itself when it begins with '/', else the
\* token under current_directory.
ResolvedPath(token) ==
    IF token[1] = "/" THEN token ELSE <<current_directory, "/">> \o token

\* C21: the mapping parse_file_references returns has the tokens as written
\* as its keys, one per distinct token in the order of first appearance;
\* where the read or the listing did not fail, the value of a token is the
\* content of a regular file, the listing of a directory, and
\* "File not found: " with the resolved path for any other path.
C21_TokenMapping ==
    parse_pc = "returned" =>
        /\ DictKeys(file_contents) = FirstAppearances(FindAll(message))
        /\ \A k \in 1..Len(FindAll(message)) :
               LET token == FindAll(message)[k]
                   outcome == fs_outcomes[LastOf(FindAll(message), k)]
                   value == DictGet(file_contents, token)
               IN  /\ outcome = "file" => value = <<"data">>
                   /\ outcome = "dir" =>
                          /\ value[1] = "Directory contents:\n"
                          /\ {"x", "y"} \subseteq Range(value)
                   /\ outcome = "missing" =>
                          value = <<"File not found: ">> \o ResolvedPath(token)

\* The call has returned for a message in which a relative token comes
\* before and after an absolute one, the first naming a missing path, the
\* second a directory.
C21_Witness ==
    /\ parse_pc = "returned"
    /\ Len(FindAll(message)) = 3
    /\ FindAll(message)[1] = FindAll(message)[3]
    /\ FindAll(message)[1][1] # "/"
    /\ FindAll(message)[2][1] = "/"
    /\ fs_outcomes[2] = "dir"
    /\ fs_outcomes[3] = "missing"
    /\ Len(file_contents) = 2


\* The first whitespace-delimited tokens of the commands in command_history,
\* in the order the commands were logged.
RECURSIVE FirstTokens(_)
FirstTokens(history) ==
    IF history = <<>> THEN <<>>
    ELSE (IF Split(Chars(Head(history).command)) = <<>> THEN <<>>
          ELSE <<Split(Chars(Head(history).command))[1]>>)
             \o FirstTokens(Tail(history))
Occurrences(s, x) == Cardinality({k \in 1..Len(s) : s[k] = x})
FirstSeen(s, x) == CHOOSE k \in 1..Len(s) : s[k] = x /\ \A j \in 1..(k - 1) : s[j] # x

\* C22: get_session_summary returns a most_used_commands list that counts
\* the commands by their first whitespace-delimited token, has at most 10
\* entries, is in descending order of count, and has tokens of equal count
\* in the order they were first seen.
C22_MostUsedCommands ==
    session_op = "summary" =>
        /\ summary.pc = "returned"
        /\ LET most == summary.most_used_commands
               tokens == FirstTokens(command_history)
           IN  /\ Len(most) <= MostUsedLimit
               /\ \A k \in 1..Len(most) :
                      most[k].value = Occurrences(tokens, most[k].key)
               /\ Len(most) < MostUsedLimit =>
                      Range(tokens) = {most[k].key : k \in 1..Len(most)}
               /\ \A j, k \in 1..Len(most) :
                      j < k =>
                          \/ most[j].value > most[k].value
                          \/ /\ most[j].value = most[k].value
                             /\ FirstSeen(tokens, most[j].key)
                                    < FirstSeen(tokens, most[k].key)


\* The distinct elements of s, each at the place of its last appearance.
RECURSIVE LastAppearances(_)
LastAppearances(s) ==
    IF s = <<>> THEN <<>>
    ELSE LET rest == LastAppearances(Tail(s))
         IN  IF \E k \in 1..Len(rest) : rest[k] = Head(s) THEN rest
             ELSE <<Head(s)>> \o rest
TouchedPaths ==
    [k \in 1..Len(session_data.file_operations) |->
         session_data.file_operations[k].filepath]

\* C23: the recent_files of the session summary are the 10 most recently
\* touched distinct paths, none twice, the most recently touched last: a
\* path touched again moves to the end.
C23_RecentFiles ==
    (session_op = "summary" /\ summary.pc = "returned") =>
        summary.recent_files
            = LastN(LastAppearances(TouchedPaths), RecentFilesWindow)


\* C24: after save_session and a load_session of the file it wrote, the
\* event lists of the session and the command_history and output_history
\* rebuilt from them are those of the time of the save, and the session
\* summary reckons from the start time that was saved.
C24_SaveLoadRoundTrip ==
    /\ (after_load /\ session_op = "load") =>
           /\ session_data.commands = JsonLoad(saved.text).commands
           /\ session_data.outputs = JsonLoad(saved.text).outputs
           /\ session_data.directory_changes
                  = JsonLoad(saved.text).directory_changes
           /\ session_data.file_operations
                  = JsonLoad(saved.text).file_operations
           /\ command_history = saved.command_history
           /\ output_history = saved.output_history
    /\ (after_load /\ session_op = "summary" /\ summary.pc = "returned") =>
           summary.session_start
               = FromIsoFormat(JsonLoad(saved.text).start_time)


\* The commands of the events of a poll cycle, in order.
CommandsIn(events) == [k \in 1..Len(events) |-> events[k].command]
AfterSemicolon(line) ==
    SubSeq(line, 1 + (CHOOSE k \in 1..Len(line) :
                          line[k] = ";" /\ \A j \in 1..(k - 1) : line[j] # ";"),
           Len(line))
HasSemicolon(line) == \E k \in 1..Len(line) : line[k] = ";"
ZshLine(line) ==
    Len(line) >= 2 /\ line[1] = ":" /\ line[2] = " " /\ HasSemicolon(line)
ReadsTheFile ==
    /\ focus = "shell_history"
    /\ loop.pc = "cycle"
    /\ last_checked' # last_checked
    /\ Len(hist_lines) = 1

\* C25 as it is worded: a line that begins with ": " yields the text after
\* its first ';', any other line that is not empty and not a comment yields
\* itself, an empty line and a line that begins with '#' yield no event.
C25_LineVerbatim ==
    [][ReadsTheFile =>
           LET line == hist_lines[1]
               commands == CommandsIn(cycle'.events)
           IN  IF line = <<>> \/ line[1] = "#" THEN commands = <<>>
               ELSE IF ZshLine(line) THEN commands = <<AfterSemicolon(line)>>
               ELSE StartsWith(line, <<":", " ">>) \/ commands = <<line>>]_vars

\* C25: the line is first stripped of the whitespace around it.  Stripped,
\* a line that begins with ": " and has a ';' yields the text after its
\* first ';', stripped again, and no event when that text is empty; any
\* other line that is not empty and not a comment yields itself, stripped;
\* an empty line and a line that begins with '#' yield no event.
C25_LineStripped ==
    [][ReadsTheFile =>
           LET line == Strip(hist_lines[1])
               commands == CommandsIn(cycle'.events)
           IN  IF line = <<>> \/ line[1] = "#" THEN commands = <<>>
               ELSE IF ZshLine(line)
               THEN IF Strip(AfterSemicolon(line)) = <<>> THEN commands = <<>>
                    ELSE commands = <<Strip(AfterSemicolon(line))>>
               ELSE commands = <<line>>]_vars

\* A poll has read a line in zsh's extended format and emitted the command
\* after the ';'.
C25_Witness ==
    /\ cycle.m = "shell_history"
    /\ hist_lines = <<(<<":", " ", ";", "l">>)>>
    /\ CommandsIn(cycle.events) = <<(<<"l">>)>>


\* The ids a step appends to terminal_buffer for existing content.
ExistingAppended ==
    SelectSeq(SubSeq(ins_tb', Len(ins_tb) + 1, Len(ins_tb')),
              LAMBDA id : id < 0)

\* C26: a start_monitoring that starts the monitoring calls the probes in
\* their fixed order up to the first that returns content, appends that
\* content as the one existing-content entry, and appends none when no
\* probe returns content; no other step appends an existing-content entry,
\* and a start_monitoring that finds the monitoring running captures nothing.
C26_CaptureOnce ==
    [][/\ Len(ExistingAppended) <= 1
       /\ ExistingAppended # <<>> => client.op = "capture"
       /\ (ncalls' # ncalls /\ last_call' = <<"start_monitoring", "">>
               /\ is_monitoring)
              => client'.op # "capture"
       /\ (client.op = "capture" /\ client'.op # "capture") =>
              LET n == Len(probed')
              IN  /\ n \in 1..Len(Probes)
                  /\ \A k \in 1..n : probed'[k][1] = Probes[k]
                  /\ \A k \in 1..(n - 1) : probed'[k][2] # "content"
                  /\ IF probed'[n][2] = "content"
                     THEN /\ Len(ExistingAppended) = 1
                          /\ terminal_buffer'[Len(terminal_buffer')].text
                                 = "[EXISTING] " \o Probes[n]
                     ELSE n = Len(Probes) /\ ExistingAppended = <<>>]_vars

\* After a start, a stop and another start, the second capture has called
\* three probes: the first raised, the second returned nothing, the third
\* returned the content that was appended, and the first capture's entry is
\* still there.
C26_Witness ==
    /\ client = Idle
    /\ last_call = <<"start_monitoring", "">>
    /\ Len(probed) = 3
    /\ probed[1][2] = "raises"
    /\ probed[2][2] = "none"
    /\ Len(SelectSeq(ins_tb, LAMBDA id : id < 0)) = 2
    /\ terminal_buffer[Len(terminal_buffer)].text
           = "[EXISTING] _get_shell_history"


\* C27: however often the polls of the shell-history source read the tail
\* of the history file again, the Command events it has emitted are no more
\* than the command lines appended to the file: each line yields at most
\* one event.  (Stated for a file that was empty when the monitor started;
\* arrived holds every event the monitor buffered.)
C27_OneEventPerLine ==
    (focus = "shell_history" /\ Len(hist_lines) = hist_mtime) =>
        Len(arrived["shell_history"]) <= Len(CommandsOf(hist_lines, kind))

\* C28: the first time a poll of the shell-history source reads the file,
\* the Command events it emits are commands of lines appended after the
\* monitor started, in their order: no line that was in the file at the
\* start is emitted.
C28_OnlyNewLines ==
    [][(/\ focus = "shell_history"
        /\ loop.pc = "cycle"
        /\ last_checked = 0
        /\ last_checked' # 0)
       => IsSubseq(CommandsIn(cycle'.events),
                   CommandsOf(LastN(hist_lines, hist_mtime), kind))]_vars


\* The time an entry of the TerminalActivityMonitor was logged with.
LoggedAt(id) ==
    (CHOOSE p \in LoggedTimes : p[1] = id)[2]

\* C29: in the text get_context(include_recent_only=True) builds from the
\* histories of the TerminalActivityMonitor, the commands and outputs are in
\* ascending order of timestamp, and those of equal timestamp in the order
\* they were logged, an output logged before a command included.
C29_RecentOrder ==
    ~is_comprehensive_monitoring =>
        \A minutes \in Minutes, now \in CallTimes,
           existing_content \in ExistingContent :
            LET text == GetContext(TRUE, minutes, now, existing_content, FALSE)
            IN  \A a, b \in 1..Len(text) :
                    (a < b /\ text[a].event # 0 /\ text[b].event # 0
                         /\ text[a].event # text[b].event)
                        => \/ LoggedAt(text[a].event) < LoggedAt(text[b].event)
                           \/ /\ LoggedAt(text[a].event)
                                     = LoggedAt(text[b].event)
                              /\ text[a].event < text[b].event


\* A thread is inside open(filepath, 'w') / json.dump of save_session.
WritingFile == session_op = "save_open"

\* C30: no thread holds the lock of the Timeline while it reads or writes a
\* file, enumerates the process table or runs a subprocess.
C30_NoLockAcrossIO == WritingFile => lock = "free"


\* C31: a failure of one source monitor is isolated.  When start_monitoring
\* is over and the start() of one monitor has raised, every other monitor
\* that has something to start runs its poll thread, and the coordination
\* thread runs; when a merge cycle is over in which the drain of one monitor
\* has raised, every other monitor was drained in that cycle.
StartIsolated ==
    (client = Idle /\ "coordinator" \in started /\ fault.start # {}) =>
        /\ \A m \in Owned \ fault.start : CanStart(m) => thread[m] = "alive"
        /\ cthread = "alive"
DrainIsolated ==
    (coord.pc = "check" /\ fault.drain # {}) =>
        \A m \in Owned \ fault.drain :
            \E k \in 1..Len(fault.drained) : fault.drained[k] = m
C31_FailureIsolated == StartIsolated /\ DrainIsolated

\* A start() and a drain have raised in a ComprehensiveTerminalMonitor, and
\* in a TerminalMonitor.
C31_Comprehensive ==
    kind = "comprehensive" /\ coord.pc = "check" /\ fault.start # {}
        /\ fault.drain # {} /\ client = Idle
C31_TerminalStart == kind = "terminal" /\ fault.start = {"shell_history"}
C31_TerminalDrain ==
    kind = "terminal" /\ fault.drain = {"shell_history"} /\ coord.pc = "check"


\* C32: the summary reports the totals of the session.  After n log_command
\* and k log_output calls, and d + f calls of log_directory_change and
\* log_file_operation, with no load and no cleanup, a summary has
\* total_commands = n, total_outputs = k, and directory_changes and
\* file_operations that add up to d + f.
C32_SessionTotals ==
    (session_op = "summary" /\ summary.pc = "returned") =>
        /\ summary.total_commands = Len(ins_cmd)
        /\ summary.total_outputs = Len(ins_out)
        /\ summary.directory_changes + summary.file_operations
               = nid - Len(ins_cmd) - Len(ins_out)

\* What does hold: the two counts of the session lists, and the commands
\* and outputs counted up to max_history_items.
C32_TotalsOfLists ==
    (session_op = "summary" /\ summary.pc = "returned") =>
        /\ summary.directory_changes + summary.file_operations
               = nid - Len(ins_cmd) - Len(ins_out)
        /\ summary.total_commands =
               IF Len(ins_cmd) <= max_history_items THEN Len(ins_cmd)
               ELSE max_history_items
        /\ summary.total_outputs =
               IF Len(ins_out) <= max_history_items THEN Len(ins_out)
               ELSE max_history_items


\* C33: get_session_summary never raises: whatever commands were logged,
\* the call returns a summary.
C33_SummaryReturns == summary.pc # "raised"

\* What does hold: the call raises only when a command of whitespace alone
\* is in command_history.
C33_RaisesOnBlankOnly ==
    (session_op = "summary" /\ summary.pc = "raised") =>
        \E k \in 1..Len(command_history) :
            /\ command_history[k].command # ""
            /\ Split(Chars(command_history[k].command)) = <<>>


\* C34: once stop_monitoring() has returned, and until start_monitoring is
\* called again, no step changes terminal_buffer or session_data of the
\* coordinator.
C34_NoMergeAfterStop ==
    [][(client = Idle /\ last_call = <<"stop_monitoring", "">>) =>
           UNCHANGED <<terminal_buffer, cm_session_data>>]_vars


\* C35: every buffered event is delivered by exactly one drain.  The clear
\* that ends a drain removes from the buffer the events its copy returned
\* and no other: none was appended between the copy and the clear.
C35_DrainLosesNothing ==
    [][(coord.pc = "clear" /\ coord'.pc # "clear") =>
           /\ Ids(buf[MonitorOrder[coord.i]]) = Ids(coord.data)
           /\ buf'[MonitorOrder[coord.i]] = <<>>]_vars

\* What does hold: a clear loses nothing when the poll thread has not
\* appended since the copy, and no event is returned by two drains.
C35_QuietDrainLosesNothing ==
    [][(/\ coord.pc = "clear"
        /\ coord'.pc # "clear"
        /\ arrived[MonitorOrder[coord.i]] = coord.since) =>
           /\ Ids(buf[MonitorOrder[coord.i]]) = Ids(coord.data)
           /\ buf'[MonitorOrder[coord.i]] = <<>>]_vars


\* The live coordination threads of the coordinator.
LiveCoordThreads == (IF cthread = "alive" THEN 1 ELSE 0) + corphans

\* C36: in every reachable state, whatever the calls of start and stop were,
\* at most one poll thread of each source monitor and at most one
\* coordination thread of the coordinator run.
C36_OneThreadEach ==
    /\ \A m \in Monitors : LiveThreads(m) <= 1
    /\ LiveCoordThreads <= 1

\* stop_monitoring() and then start_monitoring() of a coordinator, the
\* threads of before still asleep: two coordination threads run, and two
\* poll threads of one monitor.
C36_StopThenStart ==
    /\ focus = "comprehensive"
    /\ prev_call = <<"stop_monitoring", "">>
    /\ last_call = <<"start_monitoring", "">>
    /\ LiveCoordThreads = 2
    /\ \E m \in Monitors : LiveThreads(m) = 2


\* No poll thread and no coordination thread is alive.
AllThreadsEnded ==
    /\ \A m \in Monitors : LiveThreads(m) = 0
    /\ LiveCoordThreads = 0

\* C37: when stop_monitoring() of a coordinator is called and no
\* start_monitoring() after it, and every thread runs, then from some point
\* on no poll thread and no coordination thread is alive.
C37_ShutdownCompletes ==
    (focus = "comprehensive" /\ <>[](last_call = <<"stop_monitoring", "">>))
        => <>[]AllThreadsEnded

\* stop_monitoring() has returned on a coordinator that was monitoring, and
\* the threads it had started have ended.
C37_Witness ==
    /\ focus = "comprehensive"
    /\ last_call = <<"stop_monitoring", "">>
    /\ client = Idle
    /\ AllThreadsEnded
    /\ cthread = "dead"
    /\ \A m \in Owned : CanStart(m) => thread[m] = "dead"


\* The lines of context_buffer' that the step has appended, and whether
\* each of them is in the buffer after the step.
AppendedLineIds ==
    {ins_ctx'[k] : k \in (Len(ins_ctx) + 1)..Len(ins_ctx')}
AppendedKept ==
    \A id \in AppendedLineIds :
        \E j \in 1..Len(context_buffer') : context_buffer'[j].id = id

\* C38: after any _update_context_buffer(text), also one that trims, every
\* line of the text just appended is in the context buffer.
C38_AppendedTextKept == [][ins_ctx' # ins_ctx => AppendedKept]_vars

\* A text of one line of 40 characters was appended to a buffer of
\* max_context_size = 40, and the buffer is empty.
C38_LongTextGone ==
    /\ ctx_overflowed
    /\ context_buffer = <<>>
    /\ ins_ctx # <<>>


\* C39: no thread takes a lock it holds, and every lock taken is released:
\* a step that takes a lock finds it free, and a lock that is held is
\* free again later, so that whoever waits for it can take it.
LockTakenFree ==
    [][/\ (lock' # lock /\ lock' # "free") => lock = "free"
       /\ (cm_lock' # cm_lock /\ cm_lock' # "free") => cm_lock = "free"]_vars
C39_LocksReleased ==
    /\ LockTakenFree
    /\ (lock # "free") ~> (lock = "free")
    /\ (cm_lock # "free") ~> (cm_lock = "free")

\* A logger, a reader and the saver have each held the lock of the
\* TerminalActivityMonitor and released it; the coordination loop has
\* held the lock of the coordinator for a merge cycle and released it.
C39_Witness ==
    /\ lock = "free"
    /\ ins_cmd # <<>>
    /\ observed # NoView
    /\ saved # <<>>
C39_CycleDone ==
    /\ cm_lock = "free"
    /\ coord.pc = "check"
    /\ terminal_buffer # <<>>


\* C40: a load_session that fails leaves session_data, command_history and
\* output_history as they were.
C40_FailedLoadChangesNothing ==
    [][session_op' = "load_failed" =>
           UNCHANGED <<session_data, command_history, output_history>>]_vars

\* What does hold: a load that fails in open or in json.load changes
\* nothing; session_data keeps its four lists as long as no file with
\* another top level was loaded.
C40_KeptUntilForeignJson ==
    [][(session_op' = "load_failed" /\ session_data' # <<>>) =>
           UNCHANGED <<session_data, command_history, output_history>>]_vars

====
